---- MODULE Spec2Model ----
(***************************************************************************)
(* Exam-invigilation scheduler (SurveillanceOptimizerV3) and the store of  *)
(* affectations it writes.  The CP-SAT model built by                      *)
(* generer_planning_optimise is represented by the predicate Faisable over *)
(* the boolean decision variables; the solver returns any assignment that  *)
(* satisfies it (status OPTIMAL or FEASIBLE), or no assignment at all.     *)
(***************************************************************************)
EXTENDS Integers, Sequences, FiniteSets, Bags, TLC

\* ------------------------------------------------------------------ bounds
MaxEns == 2
MaxExam == 3
MaxQuota == 2
MaxMin == 3
MaxSeancesJour == 3
NbEnsEquilibre == 7

\* --------------------------------------------------------------- encodings
\* grade codes present in the teacher table
Grades == {"PR", "MA"}

\* code_smartex of the teacher with primary key i (unique, non empty)
CodeSmartex(i) == 100 + i
\* examen.enseignant = "" (falsy)
CodeVide == 0
\* a code_smartex carried by no row of the teacher table
CodeInconnu == 999

\* value of grade_configs.get(grade_code, {"nb_surveillances": 2})
QuotaParDefaut == 2

VARIABLES
    enseignants,    \* table enseignants: id -> [grade_code, code_smartex, participe_surveillance]
    grade_configs,  \* table grade_config: grade_code -> nb_surveillances (partial)
    examens,        \* table examens: id -> [dateExam, h_debut, semestre, session, enseignant, cod_salle]
    voeux,          \* table voeux: set of [code_smartex_ens, jour, seance]
    affectations,   \* table affectations: bag of [examen_id, enseignant_id, cod_salle, est_responsable]
    parametres,     \* GenerationRequest: [min_surveillants_par_salle, allow_single_surveillant]
    reponse,        \* response to the last request handled
    en_cours        \* manual add requests in flight: worker -> position and locals

vars == <<enseignants, grade_configs, examens, voeux, affectations, parametres, reponse, en_cours>>

\* the workers that serve the add endpoints side by side
Workers == {"worker_1", "worker_2"}

\* no add request is in flight
AucuneRequete == [w \in Workers |-> [pc |-> "libre"]]

\* ------------------------------------------------------------ small helpers
RECURSIVE Somme(_, _)
\* sum of f[e] for e in S
Somme(f, S) ==
    IF S = {} THEN 0
    ELSE LET e == CHOOSE e \in S : TRUE IN f[e] + Somme(f, S \ {e})

Max2(a, b) == IF a >= b THEN a ELSE b

MaxSet(S) == CHOOSE v \in S : \A w \in S : w <= v
MinSet(S) == CHOOSE v \in S : \A w \in S : v <= w

Range(s) == {s[i] : i \in DOMAIN s}

\* ------------------------------------------------------------ slot codes
\* variant: the upper ends of the ranges are included
GetSeanceCodeFromTime_BornesIncluses(time_in_minutes) ==
    LET hour == time_in_minutes \div 60 IN
    IF 510 <= time_in_minutes /\ time_in_minutes <= 630 THEN "S1"
    ELSE IF 630 <= time_in_minutes /\ time_in_minutes <= 750 THEN "S2"
    ELSE IF 750 <= time_in_minutes /\ time_in_minutes <= 870 THEN "S3"
    ELSE IF 870 <= time_in_minutes /\ time_in_minutes <= 1020 THEN "S4"
    ELSE IF hour < 12 THEN "S1" ELSE "S3"

\* _get_seance_code_from_time: heure is given in minutes since midnight
GetSeanceCodeFromTime(time_in_minutes) ==
    LET hour == time_in_minutes \div 60 IN
    IF 510 <= time_in_minutes /\ time_in_minutes < 630 THEN "S1"
    ELSE IF 630 <= time_in_minutes /\ time_in_minutes < 750 THEN "S2"
    ELSE IF 750 <= time_in_minutes /\ time_in_minutes < 870 THEN "S3"
    ELSE IF 870 <= time_in_minutes /\ time_in_minutes < 1020 THEN "S4"
    ELSE IF hour < 12 THEN "S1" ELSE "S3"

\* seance_order.get(seance_code, 99) in _seance_sort_key
SeanceOrder(seance_code) ==
    CASE seance_code = "S1" -> 1
      [] seance_code = "S2" -> 2
      [] seance_code = "S3" -> 3
      [] seance_code = "S4" -> 4
      [] OTHER -> 99

\* ------------------------------------------------------- session grouping
\* variant: the semester is left out of the key
CleSeance_SansSemestre(ex) ==
    <<ex.dateExam, GetSeanceCodeFromTime(ex.h_debut), 1, ex.session>>

\* seance_key of an exam before the day index is appended
CleSeance(ex) ==
    <<ex.dateExam, GetSeanceCodeFromTime(ex.h_debut), ex.semestre, ex.session>>

\* db.query(Examen).order_by(Examen.dateExam, Examen.h_debut).all(): the exam
\* ids in query order (rows with equal date and start time come in id order)
ExamenAvant(exs, a, b) ==
    \/ exs[a].dateExam < exs[b].dateExam
    \/ /\ exs[a].dateExam = exs[b].dateExam
       /\ \/ exs[a].h_debut < exs[b].h_debut
          \/ exs[a].h_debut = exs[b].h_debut /\ a < b

RECURSIVE ExamensOrdonnes(_, _)
ExamensOrdonnes(exs, ids) ==
    IF ids = {} THEN <<>>
    ELSE LET p == CHOOSE a \in ids : \A b \in ids \ {a} : ExamenAvant(exs, a, b)
         IN <<p>> \o ExamensOrdonnes(exs, ids \ {p})

\* _seance_sort_key: (date_exam, seance_index, semestre, session), compared
\* lexicographically
CleAvant(k1, k2) ==
    \/ k1[1] < k2[1]
    \/ /\ k1[1] = k2[1]
       /\ \/ SeanceOrder(k1[2]) < SeanceOrder(k2[2])
          \/ /\ SeanceOrder(k1[2]) = SeanceOrder(k2[2])
             /\ \/ k1[3] < k2[3]
                \/ k1[3] = k2[3] /\ k1[4] < k2[4]

RECURSIVE TrierCles(_)
\* sorted(seances.items(), key=_seance_sort_key) on the distinct keys
TrierCles(K) ==
    IF K = {} THEN <<>>
    ELSE LET p == CHOOSE a \in K : \A b \in K \ {a} : CleAvant(a, b)
         IN <<p>> \o TrierCles(K \ {p})

RECURSIVE DatesUniques(_)
\* dates_uniques: the dates of the sorted keys, in encounter order, once each
DatesUniques(cles) ==
    IF cles = <<>> THEN <<>>
    ELSE LET avant == DatesUniques(SubSeq(cles, 1, Len(cles) - 1))
             d == cles[Len(cles)][1]
         IN IF d \in Range(avant) THEN avant ELSE Append(avant, d)

\* date_to_jour_index[date_exam]
DateToJourIndex(dates_uniques, d) ==
    CHOOSE i \in DOMAIN dates_uniques : dates_uniques[i] = d

\* _grouper_examens_par_seance: the sessions in emitted order, each with its
\* 5-component key and the list of its exams in input order
GrouperExamensParSeance(exs) ==
    LET liste == ExamensOrdonnes(exs, DOMAIN exs)
        cles == TrierCles({CleSeance(exs[e]) : e \in DOMAIN exs})
        dates_uniques == DatesUniques(cles)
    IN [i \in DOMAIN cles |->
          [cle |-> <<cles[i][1], cles[i][2], cles[i][3], cles[i][4],
                     DateToJourIndex(dates_uniques, cles[i][1])>>,
           examens |-> SelectSeq(liste, LAMBDA e : CleSeance(exs[e]) = cles[i])]]

RECURSIVE ClesRencontrees(_, _)
\* the keys of the dict seances while it is filled: one key per session, in
\* the order in which the exams of the list first show them
ClesRencontrees(exs, liste) ==
    IF liste = <<>> THEN <<>>
    ELSE LET avant == ClesRencontrees(exs, SubSeq(liste, 1, Len(liste) - 1))
             k == CleSeance(exs[liste[Len(liste)]])
         IN IF k \in Range(avant) THEN avant ELSE Append(avant, k)

RECURSIVE TrierSelonCle(_)
\* sorted(seances.items(), key=_seance_sort_key) on the dict order: a stable
\* sort, a key moves before the keys whose sort key is strictly greater
TrierSelonCle(cles) ==
    IF Len(cles) <= 1 THEN cles
    ELSE LET debut == TrierSelonCle(SubSeq(cles, 1, Len(cles) - 1))
             dernier == cles[Len(cles)]
             avant == SelectSeq(debut, LAMBDA k : ~CleAvant(dernier, k))
             apres == SelectSeq(debut, LAMBDA k : CleAvant(dernier, k))
         IN avant \o <<dernier>> \o apres

\* variant: the keys are not sorted before the days are numbered
GrouperSelonOrdre_SansTri(exs, liste) ==
    LET cles == ClesRencontrees(exs, liste)
        dates_uniques == DatesUniques(cles)
    IN [i \in DOMAIN cles |->
          [cle |-> <<cles[i][1], cles[i][2], cles[i][3], cles[i][4],
                     DateToJourIndex(dates_uniques, cles[i][1])>>,
           examens |-> SelectSeq(liste, LAMBDA e : CleSeance(exs[e]) = cles[i])]]

\* _grouper_examens_par_seance(examens) for the exams given as the list liste
\* of their ids, in any order
GrouperSelonOrdre(exs, liste) ==
    LET cles == TrierSelonCle(ClesRencontrees(exs, liste))
        dates_uniques == DatesUniques(cles)
    IN [i \in DOMAIN cles |->
          [cle |-> <<cles[i][1], cles[i][2], cles[i][3], cles[i][4],
                     DateToJourIndex(dates_uniques, cles[i][1])>>,
           examens |-> SelectSeq(liste, LAMBDA e : CleSeance(exs[e]) = cles[i])]]

\* ------------------------------------------------------------ teachers
\* variant: the query has no filter
EnseignantsEligibles_SansFiltre(ens) == DOMAIN ens

\* db.query(Enseignant).filter(Enseignant.participe_surveillance == True)
EnseignantsEligibles(ens) == {t \in DOMAIN ens : ens[t].participe_surveillance}

\* _identifier_responsables: exam id -> id of the teacher (eligible or not)
\* whose code_smartex is the exam's enseignant field
IdentifierResponsables(exs, ens) ==
    LET trouve(e) == {t \in DOMAIN ens : ens[t].code_smartex = exs[e].enseignant}
        connus == {e \in DOMAIN exs : exs[e].enseignant # CodeVide /\ trouve(e) # {}}
    IN [e \in connus |-> CHOOSE t \in trouve(e) : TRUE]

\* variant: the configuration row of the grade is not read
QuotaFixe_SansConfiguration(cfg, grade_code) == QuotaParDefaut

\* grade_configs.get(grade_code, {"nb_surveillances": 2}).get("nb_surveillances", 2)
QuotaFixe(cfg, grade_code) ==
    IF grade_code \in DOMAIN cfg THEN cfg[grade_code] ELSE QuotaParDefaut

\* ------------------------------------------------- decision variables
\* affectations_vars holds one boolean per (seance_key, enseignant.id), the
\* teachers taken from the eligible list only.  A valuation x of these
\* variables is kept per session: x[i] is the set of the teachers t whose
\* variable for seances[i] has the value 1.

\* sum(surveillants_pour_seance): number of teachers chosen for session i
NbSurveillants(x, i) == Cardinality(x[i])

\* charge: number of sessions of teacher t
Charge(x, t) == Cardinality({i \in DOMAIN x : t \in x[i]})

\* ------------------------------------------------------------ constraints
\* variant: no responsible is forced
ContrainteResponsables_Aucune(x, seances, elig, responsables_examens) == TRUE

\* variant: every identified responsible is forced, eligible or not
ContrainteResponsables_TousIdentifies(x, seances, elig, responsables_examens) ==
    \A i \in DOMAIN seances : \A e \in Range(seances[i].examens) :
        e \in DOMAIN responsables_examens => responsables_examens[e] \in x[i]

\* _contrainte_responsables: the responsible of an exam, when in the eligible
\* list, is forced into the exam's session
ContrainteResponsables(x, seances, elig, responsables_examens) ==
    \A i \in DOMAIN seances : \A e \in Range(seances[i].examens) :
        (e \in DOMAIN responsables_examens /\ responsables_examens[e] \in elig)
            => responsables_examens[e] \in x[i]

\* enseignants_par_grade[grade_code]
EnseignantsGrade(ens, elig, g) == {t \in elig : ens[t].grade_code = g}

\* grades that occur among the eligible teachers
GradesPresents(ens, elig) == {ens[t].grade_code : t \in elig}

\* quotas_totaux = sum over grades of len(enseignants_grade) * quota_fixe
QuotasTotaux(ens, elig, cfg) ==
    LET part == [g \in GradesPresents(ens, elig) |->
                    Cardinality(EnseignantsGrade(ens, elig, g)) * QuotaFixe(cfg, g)]
    IN Somme(part, DOMAIN part)

\* nb_total_examens
NbTotalExamens(seances) ==
    LET n == [i \in DOMAIN seances |-> Len(seances[i].examens)]
    IN Somme(n, DOMAIN n)

\* mode_adaptatif = allow_fallback and (quotas_totaux < besoin_ideal)
ModeAdaptatif(seances, ens, elig, cfg, min_surveillants_par_examen, allow_fallback) ==
    allow_fallback
    /\ QuotasTotaux(ens, elig, cfg) < NbTotalExamens(seances) * min_surveillants_par_examen

\* variant: the adaptive mode has no minimum
NombreMinimalSeance_SansMinimum(nb_surveillants, nb_examens, nb_enseignants, min_surveillants_par_examen, mode_adaptatif) ==
    LET nb_requis_ideal == nb_examens * min_surveillants_par_examen
        nb_requis_minimal == nb_examens
    IN IF nb_requis_minimal > nb_enseignants
       THEN nb_surveillants >= nb_enseignants
       ELSE IF mode_adaptatif
            THEN nb_surveillants <= nb_requis_ideal
            ELSE nb_surveillants = nb_requis_ideal

\* variant: the normal mode asks for at least the ideal number
NombreMinimalSeance_AuMoins(nb_surveillants, nb_examens, nb_enseignants, min_surveillants_par_examen, mode_adaptatif) ==
    LET nb_requis_ideal == nb_examens * min_surveillants_par_examen
        nb_requis_minimal == nb_examens
    IN IF nb_requis_minimal > nb_enseignants
       THEN nb_surveillants >= nb_enseignants
       ELSE IF mode_adaptatif
            THEN nb_surveillants >= nb_requis_minimal /\ nb_surveillants <= nb_requis_ideal
            ELSE nb_surveillants >= nb_requis_ideal

\* variant: a session with more exams than eligible teachers is treated as
\* the other sessions
NombreMinimalSeance_SansPenurie(nb_surveillants, nb_examens, nb_enseignants, min_surveillants_par_examen, mode_adaptatif) ==
    LET nb_requis_ideal == nb_examens * min_surveillants_par_examen
        nb_requis_minimal == nb_examens
    IN IF mode_adaptatif
       THEN nb_surveillants >= nb_requis_minimal /\ nb_surveillants <= nb_requis_ideal
       ELSE nb_surveillants = nb_requis_ideal

\* _contrainte_nombre_minimal, the constraint added for one session
NombreMinimalSeance(nb_surveillants, nb_examens, nb_enseignants, min_surveillants_par_examen, mode_adaptatif) ==
    LET nb_requis_ideal == nb_examens * min_surveillants_par_examen
        nb_requis_minimal == nb_examens
    IN IF nb_requis_minimal > nb_enseignants
       THEN nb_surveillants >= nb_enseignants
       ELSE IF mode_adaptatif
            THEN nb_surveillants >= nb_requis_minimal /\ nb_surveillants <= nb_requis_ideal
            ELSE nb_surveillants = nb_requis_ideal

\* _contrainte_nombre_minimal over all sessions
ContrainteNombreMinimal(x, seances, elig, min_surveillants_par_examen, mode_adaptatif) ==
    \A i \in DOMAIN seances :
        NombreMinimalSeance(NbSurveillants(x, i), Len(seances[i].examens),
                            Cardinality(elig), min_surveillants_par_examen, mode_adaptatif)

\* variant: the cap is one session above the quota
ContrainteQuotasGrades_UnDePlus(x, ens, elig, cfg) ==
    \A t \in elig : Charge(x, t) <= QuotaFixe(cfg, ens[t].grade_code) + 1

\* _contrainte_quotas_grades, hard part: charge <= quota_fixe for every
\* teacher.  The per-grade minimum, maximum and dispersion variables have the
\* domain 0..quota_fixe, which the cap already implies.
ContrainteQuotasGrades(x, ens, elig, cfg) ==
    \A t \in elig : Charge(x, t) <= QuotaFixe(cfg, ens[t].grade_code)

\* dispersions_par_grade: the grades with more than one eligible teacher
GradesAvecDispersion(ens, elig) ==
    {g \in GradesPresents(ens, elig) : Cardinality(EnseignantsGrade(ens, elig, g)) > 1}

\* value of dispersion_grade = charge_max_grade - charge_min_grade
DispersionGrade(x, ens, elig, g) ==
    LET charges == {Charge(x, t) : t \in EnseignantsGrade(ens, elig, g)}
    IN MaxSet(charges) - MinSet(charges)

\* _configurer_fonction_objectif, COMPOSANTE 2.5: the variable dispersion_grades
\* has the domain 0..nb_grades * max_quota and equals the sum of the per-grade
\* dispersions, max_quota being the largest configured nb_surveillances
BorneDispersionGrades(x, ens, elig, cfg) ==
    LET gd == GradesAvecDispersion(ens, elig)
        disp == [g \in gd |-> DispersionGrade(x, ens, elig, g)]
    IN gd # {} =>
         Somme(disp, gd) <= Cardinality(gd) * MaxSet({cfg[g] : g \in DOMAIN cfg})

\* mode_adaptatif_global of _contrainte_equilibre_entre_seances: besoin_reel is
\* besoins_par_seance[seance_key], which _contrainte_nombre_minimal always sets
\* to nb_examens * min_surveillants_par_examen
ModeAdaptatifGlobal(seances, min_surveillants_par_examen) ==
    \E i \in DOMAIN seances :
        LET nb_examens == Len(seances[i].examens)
            besoin_ideal == nb_examens * min_surveillants_par_examen
            besoin_reel == nb_examens * min_surveillants_par_examen
        IN besoin_reel # besoin_ideal \/ nb_examens < besoin_ideal

\* variant: the adaptive tolerance is the whole span nb_examens * min
Tolerance_Etendue(nb_examens, min_surveillants_par_examen, mode_adaptatif_global) ==
    IF mode_adaptatif_global
    THEN Max2(nb_examens * min_surveillants_par_examen, 5)
    ELSE Max2(2, nb_examens \div 20)

\* tolerance of _contrainte_equilibre_entre_seances for a group of sessions
\* with nb_examens exams each
Tolerance(nb_examens, min_surveillants_par_examen, mode_adaptatif_global) ==
    IF mode_adaptatif_global
    THEN Max2(Max2((nb_examens * (min_surveillants_par_examen - 1)) \div 2, nb_examens), 5)
    ELSE Max2(2, nb_examens \div 20)

\* _contrainte_equilibre_entre_seances: every pair of sessions with the same
\* number of exams
ContrainteEquilibreEntreSeances(x, seances, min_surveillants_par_examen) ==
    LET mode_adaptatif_global == ModeAdaptatifGlobal(seances, min_surveillants_par_examen) IN
    \A i, j \in DOMAIN seances :
        (i < j /\ Len(seances[i].examens) = Len(seances[j].examens)) =>
            LET tolerance == Tolerance(Len(seances[i].examens),
                                       min_surveillants_par_examen, mode_adaptatif_global)
                nb_ens_1 == NbSurveillants(x, i)
                nb_ens_2 == NbSurveillants(x, j)
            IN nb_ens_1 - nb_ens_2 <= tolerance /\ nb_ens_2 - nb_ens_1 <= tolerance

\* seances_par_jour[jour_index]: the sessions of a day (their positions in
\* seances), in emitted order
SeancesParJour(seances, jour_index) ==
    SelectSeq([i \in DOMAIN seances |-> i], LAMBDA i : seances[i].cle[5] = jour_index)

RECURSIVE TrierParCode(_, _)
\* sorted(seances_jour, key=lambda x: x[1]): stable sort on the slot code
\* string ("S1" < "S2" < "S3" < "S4")
TrierParCode(seances, seances_jour) ==
    IF Len(seances_jour) <= 1 THEN seances_jour
    ELSE LET debut == TrierParCode(seances, SubSeq(seances_jour, 1, Len(seances_jour) - 1))
             dernier == seances_jour[Len(seances_jour)]
             code(i) == SeanceOrder(seances[i].cle[2])
             avant == SelectSeq(debut, LAMBDA i : code(i) <= code(dernier))
             apres == SelectSeq(debut, LAMBDA i : code(i) > code(dernier))
         IN avant \o <<dernier>> \o apres

\* the jour_index values of the sessions
JoursIndex(seances) == {seances[i].cle[5] : i \in DOMAIN seances}

\* variant: the rule starts at days of four sessions
ContrainteInterdirePremiereDerniereIsolees_QuatreSeances(x, seances, elig) ==
    \A jour_index \in JoursIndex(seances) :
        LET seances_jour_triees == TrierParCode(seances, SeancesParJour(seances, jour_index))
            nb == Len(seances_jour_triees)
        IN nb >= 4 =>
             \A t \in elig :
                 LET a_premiere == IF t \in x[seances_jour_triees[1]] THEN 1 ELSE 0
                     a_derniere == IF t \in x[seances_jour_triees[nb]] THEN 1 ELSE 0
                     a_intermediaire ==
                         Cardinality({k \in 2..(nb - 1) : t \in x[seances_jour_triees[k]]})
                 IN a_premiere + a_derniere <= 1 + a_intermediaire

\* _contrainte_interdire_premiere_derniere_isolees
ContrainteInterdirePremiereDerniereIsolees(x, seances, elig) ==
    \A jour_index \in JoursIndex(seances) :
        LET seances_jour_triees == TrierParCode(seances, SeancesParJour(seances, jour_index))
            nb == Len(seances_jour_triees)
        IN nb >= 3 =>
             \A t \in elig :
                 LET a_premiere == IF t \in x[seances_jour_triees[1]] THEN 1 ELSE 0
                     a_derniere == IF t \in x[seances_jour_triees[nb]] THEN 1 ELSE 0
                     a_intermediaire ==
                         Cardinality({k \in 2..(nb - 1) : t \in x[seances_jour_triees[k]]})
                 IN a_premiere + a_derniere <= 1 + a_intermediaire

\* ------------------------------------------------------------------ wishes
\* getattr(voeu, "date_voeu", None): the table voeux has the columns jour and
\* seance and no column date_voeu, so the attribute read always gives None
AucuneDate == 0

\* _trier_et_afficher_voeux: one dictionary per row of the table voeux (the
\* order of the list only shows in the information lines)
TrierEtAfficherVoeux(vx) ==
    {[id |-> v.code_smartex_ens, date_voeu |-> AucuneDate, seance |-> v.seance] : v \in vx}

\* voeux_set of _contrainte_voeux: (enseignant_id, date_voeu, seance) of the
\* wishes whose code is the code_smartex of an eligible teacher and whose
\* date_voeu and seance are not empty; the other wishes are rejected
VoeuxSet(list_voeux, ens, elig) ==
    {<<p[1], p[2].date_voeu, p[2].seance>> :
        p \in {q \in elig \X list_voeux :
                  /\ q[2].id # CodeVide
                  /\ ens[q[1]].code_smartex = q[2].id
                  /\ q[2].date_voeu # AucuneDate
                  /\ q[2].seance # ""}}

\* preferences["avec_voeu"]: the (session, teacher) pairs whose
\* (enseignant.id, date_exam, seance_code) is in voeux_set
AvecVoeu(list_voeux, seances, ens, elig) ==
    {p \in (DOMAIN seances) \X elig :
        <<p[2], seances[p[1]].cle[1], seances[p[1]].cle[2]>> \in VoeuxSet(list_voeux, ens, elig)}

\* --------------------------------------------------------------- objective
\* total_affectations = sum(charges)
TotalAffectations(x, elig) == Somme([t \in elig |-> Charge(x, t)], elig)

\* dispersion = charge_max - charge_min over all the eligible teachers
Dispersion(x, elig) ==
    LET charges == {Charge(x, t) : t \in elig}
    IN MaxSet(charges) - MinSet(charges)

\* dispersion_grades = sum(self.dispersions_par_grade.values())
DispersionGrades(x, ens, elig) ==
    LET gd == GradesAvecDispersion(ens, elig)
    IN Somme([g \in gd |-> DispersionGrade(x, ens, elig, g)], gd)

\* contribution_jour of _contrainte_seances_consecutives: 0 without a session
\* that day, -2 with exactly one, the number of sessions with two or more
ContributionJour(x, seances, t, jour_index) ==
    LET nb_seances_jour ==
            Cardinality({i \in Range(SeancesParJour(seances, jour_index)) : t \in x[i]})
    IN IF nb_seances_jour = 0 THEN 0
       ELSE IF nb_seances_jour = 1 THEN 0 - 2
       ELSE nb_seances_jour

\* score_regroupement = sum(bonus_total), one contribution per teacher and day
BonusConsecutivite(x, seances, elig) ==
    LET paires == elig \X JoursIndex(seances)
    IN Somme([p \in paires |-> ContributionJour(x, seances, p[1], p[2])], paires)

\* bonus_voeux = sum of the decision variables of the pairs of avec_voeu; the
\* term is left out of the objective when avec_voeu is empty
BonusVoeux(x, avec_voeu) == Cardinality({p \in avec_voeu : p[2] \in x[p[1]]})

\* variant: no quota-utilisation term and no per-grade dispersion term, the
\* global dispersion weighted 30 and the grouping score 20
ScoreCombine_SansUtilisation(x, seances, ens, elig, avec_voeu) ==
    20 * BonusConsecutivite(x, seances, elig)
        - 30 * Dispersion(x, elig)
        + 10 * BonusVoeux(x, avec_voeu)

\* score_combine, with the weights of activer_regroupement_temporel = True
ScoreCombine(x, seances, ens, elig, avec_voeu) ==
    35 * TotalAffectations(x, elig)
        - 25 * Dispersion(x, elig)
        - 20 * DispersionGrades(x, ens, elig)
        + 10 * BonusConsecutivite(x, seances, elig)
        + 10 * BonusVoeux(x, avec_voeu)

\* the model handed to the solver: every hard constraint and every variable
\* domain that restricts the decision variables.  The indicator variables of
\* _contrainte_seances_consecutives and the score variables can be completed
\* for any value of the decision variables.
Faisable(x, seances, ens, elig, cfg, responsables_examens, min_surveillants_par_examen, mode_adaptatif) ==
    /\ ContrainteResponsables(x, seances, elig, responsables_examens)
    /\ ContrainteNombreMinimal(x, seances, elig, min_surveillants_par_examen, mode_adaptatif)
    /\ ContrainteQuotasGrades(x, ens, elig, cfg)
    /\ ContrainteEquilibreEntreSeances(x, seances, min_surveillants_par_examen)
    /\ ContrainteInterdirePremiereDerniereIsolees(x, seances, elig)
    /\ BorneDispersionGrades(x, ens, elig, cfg)

RECURSIVE Valuations(_, _, _, _, _)
\* the valuations of the decision variables of the first k sessions that
\* satisfy the coverage constraint of each of these sessions
Valuations(seances, elig, min_surveillants_par_examen, mode_adaptatif, k) ==
    IF k = 0 THEN {<<>>}
    ELSE LET choix == {A \in SUBSET elig :
                          NombreMinimalSeance(Cardinality(A), Len(seances[k].examens),
                                              Cardinality(elig),
                                              min_surveillants_par_examen, mode_adaptatif)}
         IN {Append(x, A) :
                x \in Valuations(seances, elig, min_surveillants_par_examen,
                                 mode_adaptatif, k - 1),
                A \in choix}

\* the solutions of the model: all the valuations of the decision variables
\* that satisfy Faisable (the coverage constraint is per session and is
\* applied while the valuations are enumerated)
Solutions(seances, ens, elig, cfg, responsables_examens, min_surveillants_par_examen, mode_adaptatif) ==
    {x \in Valuations(seances, elig, min_surveillants_par_examen, mode_adaptatif,
                      Len(seances)) :
        Faisable(x, seances, ens, elig, cfg, responsables_examens,
                 min_surveillants_par_examen, mode_adaptatif)}

\* exceptions raised while the model is built: the integer division by
\* min_surveillants_par_examen - 1 in adaptive mode, and max() of an empty
\* list when no grade is configured
ErreurConstruction(ens, elig, cfg, min_surveillants_par_examen, mode_adaptatif) ==
    \/ mode_adaptatif /\ min_surveillants_par_examen = 1
    \/ GradesAvecDispersion(ens, elig) # {} /\ DOMAIN cfg = {}

\* ------------------------------------------------------------------ save
\* variant: a row is flagged when its teacher is the responsible of any exam
\* of the session
SauvegarderAffectationsParSeance_ParSeance(x, seances, exs, responsables_examens) ==
    UNION {{[examen_id |-> e,
             enseignant_id |-> t,
             cod_salle |-> exs[e].cod_salle,
             est_responsable |->
                 (\E f \in Range(seances[i].examens) :
                     f \in DOMAIN responsables_examens /\ responsables_examens[f] = t)] :
               e \in Range(seances[i].examens), t \in x[i]} : i \in DOMAIN seances}

\* _sauvegarder_affectations_par_seance: one row per exam of a session and
\* teacher chosen for the session
SauvegarderAffectationsParSeance(x, seances, exs, responsables_examens) ==
    UNION {{[examen_id |-> e,
             enseignant_id |-> t,
             cod_salle |-> exs[e].cod_salle,
             est_responsable |->
                 (e \in DOMAIN responsables_examens /\ responsables_examens[e] = t)] :
               e \in Range(seances[i].examens), t \in x[i]} : i \in DOMAIN seances}

\* ------------------------------------------------------------ operations
\* statuses CpSolver.Solve can return for this model
Statuts == {"OPTIMAL", "FEASIBLE", "INFEASIBLE", "UNKNOWN"}

\* values of the decision variables when no solution was read back
SansValeurs == <<>>

\* ---------------------------------------------------------------- warnings
\* self.warnings, each line kept as a tag that names the statement appending
\* it.  The information lines (self.infos) that a successful run returns
\* after the warnings are not kept.
Repete(tag, n) == [k \in 1..n |-> tag]

\* _identifier_responsables: one line per exam whose code is the
\* code_smartex of no teacher
AvertissementsIdentifier(exs, ens) ==
    Repete("responsable_non_trouve",
           Cardinality({e \in DOMAIN exs :
                           /\ exs[e].enseignant # CodeVide
                           /\ \A t \in DOMAIN ens : ens[t].code_smartex # exs[e].enseignant}))

\* _contrainte_responsables: one line per exam whose responsible is not in the
\* eligible list
AvertissementsResponsables(seances, elig, responsables_examens) ==
    Repete("responsable_non_disponible",
           Cardinality({e \in UNION {Range(seances[i].examens) : i \in DOMAIN seances} :
                           e \in DOMAIN responsables_examens
                               /\ responsables_examens[e] \notin elig}))

\* _contrainte_nombre_minimal: four lines when the quotas are short and the
\* fallback is off, two lines in adaptive mode, one line per session with
\* more exams than eligible teachers
AvertissementsNombreMinimal(seances, ens, elig, cfg, min_surveillants_par_examen, allow_fallback) ==
    LET court == QuotasTotaux(ens, elig, cfg)
                     < NbTotalExamens(seances) * min_surveillants_par_examen
    IN (IF ~allow_fallback /\ court THEN Repete("quotas_insuffisants", 4) ELSE <<>>)
           \o (IF allow_fallback /\ court THEN Repete("mode_adaptatif", 2) ELSE <<>>)
           \o Repete("seance_critique",
                     Cardinality({i \in DOMAIN seances :
                                     Len(seances[i].examens) > Cardinality(elig)}))

\* the warnings appended while the model is built
AvertissementsConstruction(seances, exs, ens, elig, cfg, responsables_examens, min_surveillants_par_examen, allow_fallback) ==
    AvertissementsIdentifier(exs, ens)
        \o AvertissementsResponsables(seances, elig, responsables_examens)
        \o AvertissementsNombreMinimal(seances, ens, elig, cfg,
                                       min_surveillants_par_examen, allow_fallback)

\* _diagnostiquer_echec, the constraints of its test models on a valuation x
\* of their own decision variables.  Tests 2, 3 and 4: the responsible of an
\* exam, when in the eligible list, is forced into the exam's session
TestResponsables(x, seances, elig, responsables_examens) ==
    \A i \in DOMAIN seances : \A e \in Range(seances[i].examens) :
        (e \in DOMAIN responsables_examens /\ responsables_examens[e] \in elig)
            => responsables_examens[e] \in x[i]

\* test 3: at least nb_requis teachers per session, or all of them (without
\* fallback) or min(nb_examens, all of them) when they are fewer
TestNombreMinimal3(x, seances, elig, min_surveillants_par_examen, allow_fallback) ==
    \A i \in DOMAIN seances :
        LET nb_examens == Len(seances[i].examens)
            nb_requis == nb_examens * min_surveillants_par_examen
        IN IF nb_requis > Cardinality(elig)
           THEN IF allow_fallback
                THEN Cardinality(x[i]) >= MinSet({nb_examens, Cardinality(elig)})
                ELSE Cardinality(x[i]) >= Cardinality(elig)
           ELSE Cardinality(x[i]) >= nb_requis

\* test 4: the same, but nothing is asked of a session that needs more
\* teachers than there are when the fallback is off
TestNombreMinimal4(x, seances, elig, min_surveillants_par_examen, allow_fallback) ==
    \A i \in DOMAIN seances :
        LET nb_examens == Len(seances[i].examens)
            nb_requis == nb_examens * min_surveillants_par_examen
        IN IF nb_requis > Cardinality(elig)
           THEN allow_fallback =>
                    Cardinality(x[i]) >= MinSet({nb_examens, Cardinality(elig)})
           ELSE Cardinality(x[i]) >= nb_requis

\* responsabilites_par_enseignant_test[t]: the sessions with an exam whose
\* responsible is t
ResponsabilitesTest(seances, responsables_examens, t) ==
    Cardinality({i \in DOMAIN seances :
                    \E e \in Range(seances[i].examens) :
                        e \in DOMAIN responsables_examens /\ responsables_examens[e] = t})

\* test 4, "quotas par grade": inside each grade the loads differ by at most
\* tolerance_ajustee; no load is compared with the quota of the grade
TestQuotasGrades(x, seances, ens, elig, cfg, responsables_examens) ==
    \A g \in GradesPresents(ens, elig) :
        LET enseignants_grade == EnseignantsGrade(ens, elig, g)
            quota_fixe == QuotaFixe(cfg, g)
            max_responsabilites ==
                MaxSet({ResponsabilitesTest(seances, responsables_examens, t) :
                            t \in enseignants_grade})
            tolerance_ajustee ==
                IF max_responsabilites > quota_fixe
                THEN max_responsabilites - quota_fixe + 1
                ELSE 1
            charges == {Charge(x, t) : t \in enseignants_grade}
        IN MaxSet(charges) - MinSet(charges) <= tolerance_ajustee

\* the valuations of the decision variables of a test model
ValuationsTest(seances, elig) == [DOMAIN seances -> SUBSET elig]

\* the sessions of capacite_insuffisante
CapaciteInsuffisante(seances, elig, min_surveillants_par_examen) ==
    {i \in DOMAIN seances :
        Len(seances[i].examens) * min_surveillants_par_examen > Cardinality(elig)}

\* _diagnostiquer_echec: the test models are solved in the order 1 (no
\* constraint), 2 (responsibles), 3 (responsibles and coverage), 4
\* (responsibles, coverage and grades); the first test without solution ends
\* the diagnosis, and test 5 only appends the conclusion that the constraints
\* are compatible.  One tag per heading line; the lines of advice that follow
\* a failed test are not kept.
DiagnostiquerEchec(seances, ens, elig, cfg, responsables_examens, min_surveillants_par_examen, allow_fallback) ==
    LET test_2 == \E x \in ValuationsTest(seances, elig) :
                      TestResponsables(x, seances, elig, responsables_examens)
        test_3 == \E x \in ValuationsTest(seances, elig) :
                      /\ TestResponsables(x, seances, elig, responsables_examens)
                      /\ TestNombreMinimal3(x, seances, elig,
                                            min_surveillants_par_examen, allow_fallback)
        test_4 == \E x \in ValuationsTest(seances, elig) :
                      /\ TestResponsables(x, seances, elig, responsables_examens)
                      /\ TestNombreMinimal4(x, seances, elig,
                                            min_surveillants_par_examen, allow_fallback)
                      /\ TestQuotasGrades(x, seances, ens, elig, cfg,
                                          responsables_examens)
        capacite == IF CapaciteInsuffisante(seances, elig,
                                            min_surveillants_par_examen) # {}
                    THEN <<"capacite_limite">> ELSE <<>>
    IN <<"test_1_ok">> \o
       (IF ~test_2 THEN <<"test_2_echec">>
        ELSE <<"test_2_ok">> \o
             (IF ~test_3 THEN <<"test_3_echec">>
              ELSE <<"test_3_ok">> \o capacite \o
                   (IF ~test_4 THEN <<"test_4_echec">>
                    ELSE <<"test_4_ok", "test_5_compatibles", "conclusion_contraintes_ok">>)))

\* the lines appended when the solver returns neither OPTIMAL nor FEASIBLE
AvertissementsEchec(diagnostic_result) ==
    <<"aucune_solution", "diagnostic_des_contraintes">> \o diagnostic_result

\* _verifier_couverture_seances: one line per session with fewer distinct
\* teachers in the store than besoins_par_seance, which is
\* nb_examens * min_surveillants_par_examen
VerifierCouvertureSeances(x, seances, min_surveillants_par_examen) ==
    Repete("couverture_insuffisante",
           Cardinality({i \in DOMAIN seances :
                           NbSurveillants(x, i)
                               < Len(seances[i].examens) * min_surveillants_par_examen}))

\* variant: only the exams are checked
EntreeVide_SansEnseignants(elig, exs) == DOMAIN exs = {}

\* the preliminary checks: not enseignants, not examens
EntreeVide(elig, exs) == elig = {} \/ DOMAIN exs = {}

\* variant: only the status OPTIMAL counts as a solution
SolutionTrouvee_OptimalSeul(status) == status = "OPTIMAL"

\* status == cp_model.OPTIMAL or status == cp_model.FEASIBLE
SolutionTrouvee(status) == status \in {"OPTIMAL", "FEASIBLE"}

\* variant: the old rows are kept
Nettoyer_Conserver(lignes) == lignes

\* Phase 2: self.db.query(Affectation).delete() and commit
Nettoyer(lignes) == EmptyBag

\* response of generer_planning_optimise; nb_supprimees is the number of old
\* rows the run deleted (printed, 0 when the run returns before Phase 2)
ReponseGenerer(etat, success, nb, status, valeurs, m, fb, messages, nb_supprimees) ==
    [op |-> "generer_planning_optimise", etat |-> etat, success |-> success,
     nb_affectations |-> nb, status |-> status, valeurs |-> valeurs,
     min_surveillants_par_examen |-> m, allow_fallback |-> fb, messages |-> messages,
     nb_supprimees |-> nb_supprimees]

\* generer_planning_optimise(min_surveillants_par_examen, allow_fallback),
\* called with respecter_voeux, equilibrer_temporel and
\* activer_regroupement_temporel set
GenererPlanningOptimise(min_surveillants_par_examen, allow_fallback) ==
    LET elig == EnseignantsEligibles(enseignants)
        responsables_examens == IdentifierResponsables(examens, enseignants)
    IN
    /\ UNCHANGED <<enseignants, grade_configs, examens, voeux, parametres, en_cours>>
    /\ IF EntreeVide(elig, examens)
       THEN \* "Aucun enseignant disponible" / "Aucun examen à planifier"
            /\ reponse' = ReponseGenerer("retour", FALSE, 0, "NONE", SansValeurs,
                                         min_surveillants_par_examen, allow_fallback,
                                         IF elig = {} THEN <<"aucun_enseignant">>
                                                      ELSE <<"aucun_examen">>,
                                         0)
            /\ UNCHANGED affectations
       ELSE \E seances \in {GrouperExamensParSeance(examens)} :
            LET mode_adaptatif == ModeAdaptatif(seances, enseignants, elig, grade_configs,
                                                min_surveillants_par_examen, allow_fallback)
                warnings == AvertissementsConstruction(
                                seances, examens, enseignants, elig, grade_configs,
                                responsables_examens, min_surveillants_par_examen,
                                allow_fallback)
            IN
            IF ErreurConstruction(enseignants, elig, grade_configs,
                                  min_surveillants_par_examen, mode_adaptatif)
            THEN \* the old rows are deleted and committed before the model is built
                 /\ affectations' = Nettoyer(affectations)
                 /\ reponse' = ReponseGenerer("exception", FALSE, 0, "NONE", SansValeurs,
                                              min_surveillants_par_examen, allow_fallback,
                                              <<>>, BagCardinality(affectations))
            ELSE \E solutions \in {Solutions(seances, enseignants, elig, grade_configs,
                                             responsables_examens,
                                             min_surveillants_par_examen, mode_adaptatif)} :
                 \E status \in Statuts :
                 IF SolutionTrouvee(status)
                 THEN \E x \in solutions :
                        LET lignes == SauvegarderAffectationsParSeance(
                                          x, seances, examens, responsables_examens)
                        IN /\ affectations' = Nettoyer(affectations) (+) SetToBag(lignes)
                           /\ reponse' = ReponseGenerer("retour", TRUE, Cardinality(lignes),
                                                        status, x,
                                                        min_surveillants_par_examen,
                                                        allow_fallback,
                                                        warnings \o VerifierCouvertureSeances(
                                                            x, seances,
                                                            min_surveillants_par_examen),
                                                        BagCardinality(affectations))
                 ELSE \* the solver reports INFEASIBLE only without solution, and
                      \* OPTIMAL or FEASIBLE only with one
                      /\ status = "INFEASIBLE" => solutions = {}
                      /\ status \in {"OPTIMAL", "FEASIBLE"} => solutions # {}
                      /\ affectations' = Nettoyer(affectations)
                      /\ reponse' = ReponseGenerer("retour", FALSE, 0, status, SansValeurs,
                                                   min_surveillants_par_examen,
                                                   allow_fallback,
                                                   warnings \o AvertissementsEchec(
                                                       DiagnostiquerEchec(
                                                           seances, enseignants, elig,
                                                           grade_configs,
                                                           responsables_examens,
                                                           min_surveillants_par_examen,
                                                           allow_fallback)),
                                                   BagCardinality(affectations))

\* DELETE /generation/reinitialiser
ReinitialiserPlanning ==
    /\ affectations' = EmptyBag
    /\ reponse' = [op |-> "reinitialiser_planning",
                   nb_supprimes |-> BagCardinality(affectations)]
    /\ UNCHANGED <<enseignants, grade_configs, examens, voeux, parametres, en_cours>>

\* POST /generation/generer-v3: the request's min_surveillants_par_salle and
\* allow_single_surveillant are passed to generer_planning_optimise
GenererPlanningV3 ==
    GenererPlanningOptimise(parametres.min_surveillants_par_salle,
                            parametres.allow_single_surveillant)

Next ==
    \/ GenererPlanningV3
    \/ ReinitialiserPlanning

\* ------------------------------------------------------------------ inputs
\* a row of the table enseignants
Enseignant(i, grade_code, participe) ==
    [grade_code |-> grade_code, code_smartex |-> CodeSmartex(i),
     participe_surveillance |-> participe]

\* cod_salle of the exam with primary key i
CodSalle(i) == 200 + i

\* a row of the table examens; creneau = <<dateExam, h_debut, semestre>>
Examen(i, creneau, responsable) ==
    [dateExam |-> creneau[1], h_debut |-> creneau[2], h_fin |-> creneau[2] + 90,
     semestre |-> creneau[3], session |-> 1, enseignant |-> responsable,
     cod_salle |-> CodSalle(i)]

\* the exams table whose row i has the time slot creneaux[i] and the
\* responsible code responsables[i]
LotExamens(creneaux, responsables) ==
    [i \in DOMAIN creneaux |-> Examen(i, creneaux[i], responsables[i])]

\* all the ways to place n exams (in non-decreasing order) on the slots of cat
Placements(cat, n) ==
    {[i \in 1..n |-> cat[p[i]]] :
        p \in {q \in [1..n -> DOMAIN cat] : \A i \in 1..(n - 1) : q[i] <= q[i + 1]}}

\* exams tables of at most nmax exams on the slots of cat, the responsible
\* code of every exam taken from codes
Lots(cat, nmax, codes) ==
    UNION {{LotExamens(c, r) : c \in Placements(cat, n), r \in [1..n -> codes]} : n \in 0..nmax}

\* 09:00 (S1), 11:00 (S2), 13:00 (S3), 15:00 (S4) in minutes since midnight
H1 == 9 * 60
H2 == 11 * 60
H3 == 13 * 60
H4 == 15 * 60

\* GenerationRequest values
Requetes(ms, fbs) ==
    {[min_surveillants_par_salle |-> m, allow_single_surveillant |-> fb] :
        m \in ms, fb \in fbs}

InitAvec(tables, configs, lots, requetes) ==
    /\ enseignants \in tables
    /\ grade_configs \in configs
    /\ examens \in lots
    /\ voeux = {}
    /\ parametres \in requetes
    /\ affectations = EmptyBag
    /\ reponse = [op |-> "aucune"]
    /\ en_cours = AucuneRequete

\* the slots the input families place exams on
Jour1S1 == <<1, H1, 1>>
Jour1S1Sem2 == <<1, H1, 2>>
Jour1S2 == <<1, H2, 1>>
Jour1S3 == <<1, H3, 1>>
Jour1S4 == <<1, H4, 1>>
Jour2S1 == <<2, H1, 1>>

\* MaxEns eligible teachers, all of grade PR, or the last one of grade MA
TablesEligibles ==
    {[i \in 1..MaxEns |-> Enseignant(i, IF i < MaxEns THEN "PR" ELSE g, TRUE)] : g \in Grades}

\* grades and quotas: eligible teachers, no responsible, two sessions at the
\* same date and slot; the grade MA is configured or left to the default quota,
\* or no grade is configured at all
ConfigsGrades ==
    {[g \in {"PR"} |-> q] : q \in 0..MaxQuota}
        \cup {[g \in Grades |-> IF g = "PR" THEN q ELSE r] :
                  q \in 1..MaxQuota, r \in {1, MaxQuota}}
        \cup {<<>>}

LotsGrades == Lots(<<Jour1S1, Jour1S1Sem2>>, MaxExam, {CodeVide})

InitGrades ==
    InitAvec(TablesEligibles, ConfigsGrades, LotsGrades, Requetes(1..2, BOOLEAN))

\* responsibles and eligibility: every teacher eligible or not, the first of
\* grade PR and the others of grade MA; the responsible code of an exam is
\* empty, the code of teacher 1 or a code of no teacher
TablesResponsables ==
    {[i \in 1..MaxEns |-> Enseignant(i, IF i = 1 THEN "PR" ELSE "MA", p[i])] :
        p \in [1..MaxEns -> BOOLEAN]}

ConfigsResponsables == {[g \in Grades |-> q] : q \in {1, MaxQuota}}

LotsResponsables == Lots(<<Jour1S1, Jour1S2>>, 2, {CodeVide, CodeSmartex(1), CodeInconnu})

InitResponsables ==
    InitAvec(TablesResponsables, ConfigsResponsables, LotsResponsables,
             Requetes(1..2, {FALSE}))

\* adaptive mode: fallback allowed, two or more invigilators per exam, the
\* quota of grade PR from 0 to MaxQuota
ConfigsAdaptatif == {[g \in {"PR"} |-> q] : q \in 0..MaxQuota}

LotsAdaptatif == Lots(<<Jour1S1, Jour2S1>>, MaxExam, {CodeVide})

InitAdaptatif ==
    InitAvec(TablesEligibles, ConfigsAdaptatif, LotsAdaptatif, Requetes(2..MaxMin, {TRUE}))

\* days of three sessions and more: one exam in each of n sessions of day 1,
\* eligible teachers of grade PR
LotsJour ==
    {LotExamens(c, [i \in DOMAIN c |-> CodeVide]) :
        c \in UNION {{q \in Placements(<<Jour1S1, Jour1S1Sem2, Jour1S2, Jour1S3, Jour1S4>>, n) :
                        \A i \in 1..(n - 1) : q[i] # q[i + 1]} : n \in 3..MaxSeancesJour}}

ConfigsJour == {[g \in Grades |-> q] : q \in MaxQuota..(MaxQuota + 1)}

InitJour ==
    InitAvec({[i \in 1..MaxEns |-> Enseignant(i, "PR", TRUE)]}, ConfigsJour, LotsJour,
             Requetes({1}, {FALSE}))

Init == InitGrades \/ InitResponsables \/ InitAdaptatif \/ InitJour

Spec == Init /\ [][Next]_vars

\* balance between sessions: NbEnsEquilibre eligible teachers, the last of
\* grade MA with quota 2 and the others of grade PR with quota 1; two
\* one-exam sessions; as many invigilators per exam asked as there are
\* teachers, fallback allowed
InitEquilibre ==
    InitAvec({[i \in 1..NbEnsEquilibre |->
                  Enseignant(i, IF i < NbEnsEquilibre THEN "PR" ELSE "MA", TRUE)]},
             {[g \in Grades |-> IF g = "PR" THEN 1 ELSE 2]},
             {LotExamens(<<Jour1S1, Jour2S1>>, <<CodeVide, CodeVide>>)},
             Requetes({NbEnsEquilibre}, {TRUE}))

\* the first request the service handles is a scheduler run
PremiereGeneration == reponse.op = "aucune" /\ GenererPlanningV3

NextPremiere ==
    \/ PremiereGeneration
    \/ ReinitialiserPlanning

\* one scheduler run on each input, the balance inputs included
SpecPremiere == (Init \/ InitEquilibre) /\ [][NextPremiere]_vars

\* --------------------------------------------------------- wishes inputs
\* a row of the table voeux
Voeu(code, jour, seance) == [code_smartex_ens |-> code, jour |-> jour, seance |-> seance]

\* wishes of teacher 1, or under a code of no teacher, for the slots S1 and S2
\* of day 1
LignesVoeux ==
    {Voeu(code, 1, seance) : code \in {CodeSmartex(1), CodeInconnu}, seance \in {"S1", "S2"}}

\* teachers of grade PR, the last one eligible or not
TablesVoeux ==
    {[i \in 1..MaxEns |-> Enseignant(i, "PR", i < MaxEns \/ p)] : p \in BOOLEAN}

ConfigsVoeux == {[g \in {"PR"} |-> q] : q \in 1..MaxQuota}

LotsVoeux == Lots(<<Jour1S1, Jour1S2, Jour2S1>>, MaxExam, {CodeVide})

\* wishes: any table of at most two rows of LignesVoeux
InitVoeux ==
    /\ enseignants \in TablesVoeux
    /\ grade_configs \in ConfigsVoeux
    /\ examens \in LotsVoeux
    /\ voeux \in {vx \in SUBSET LignesVoeux : Cardinality(vx) <= 2}
    /\ parametres \in Requetes(1..2, {FALSE})
    /\ affectations = EmptyBag
    /\ reponse = [op |-> "aucune"]
    /\ en_cours = AucuneRequete

\* scheduler runs on inputs with wishes
SpecVoeux == InitVoeux /\ [][Next]_vars

\* unknown codes: the inputs of InitResponsables with no wish or one wish of
\* LignesVoeux
InitCodes ==
    /\ enseignants \in TablesResponsables
    /\ grade_configs \in ConfigsResponsables
    /\ examens \in LotsResponsables
    /\ voeux \in {vx \in SUBSET LignesVoeux : Cardinality(vx) <= 1}
    /\ parametres \in Requetes(1..2, {FALSE})
    /\ affectations = EmptyBag
    /\ reponse = [op |-> "aucune"]
    /\ en_cours = AucuneRequete

\* scheduler runs on inputs with unknown codes
SpecCodes == InitCodes /\ [][Next]_vars

\* ----------------------------------------------------------- manual edits
\* JSON body of a manual request: the keys of the request schemas and the key
\* est_responsable that the clients of test_affectations.py also send
Corps(enseignant_id, creneau, est_responsable) ==
    [enseignant_id |-> enseignant_id, date_examen |-> creneau[1],
     h_debut |-> creneau[2], h_fin |-> creneau[3], session |-> creneau[4],
     semestre |-> creneau[5], est_responsable |-> est_responsable]

\* the request schemas keep their declared fields and drop any other key
AjouterEnseignantSeanceRequest(corps) ==
    [enseignant_id |-> corps.enseignant_id, date_examen |-> corps.date_examen,
     h_debut |-> corps.h_debut, h_fin |-> corps.h_fin,
     session |-> corps.session, semestre |-> corps.semestre]

SupprimerEnseignantSeanceRequest(corps) ==
    [enseignant_id |-> corps.enseignant_id, date_examen |-> corps.date_examen,
     h_debut |-> corps.h_debut, h_fin |-> corps.h_fin,
     session |-> corps.session, semestre |-> corps.semestre]

AjouterEnseignantParDateHeureRequest(corps) ==
    [enseignant_id |-> corps.enseignant_id, date_examen |-> corps.date_examen,
     h_debut |-> corps.h_debut]

\* variant: the session is matched on its date and start time only
ExamensDeLaSeance_DateHeure(request) ==
    {e \in DOMAIN examens :
        /\ examens[e].dateExam = request.date_examen
        /\ examens[e].h_debut = request.h_debut}

\* the exams of the session of the request
ExamensDeLaSeance(request) ==
    {e \in DOMAIN examens :
        /\ examens[e].dateExam = request.date_examen
        /\ examens[e].h_debut = request.h_debut
        /\ examens[e].h_fin = request.h_fin
        /\ examens[e].session = request.session
        /\ examens[e].semestre = request.semestre}

\* the exams of the date and start time of the request
ExamensParDateHeure(request) ==
    {e \in DOMAIN examens :
        /\ examens[e].dateExam = request.date_examen
        /\ examens[e].h_debut = request.h_debut}

\* variant: the existing rows are not looked up
AffectationsExistantes_Aucune(enseignant_id, examens_seance) == {}

\* the rows of the teacher on the exams examens_seance
AffectationsExistantes(enseignant_id, examens_seance) ==
    {l \in BagToSet(affectations) :
        l.enseignant_id = enseignant_id /\ l.examen_id \in examens_seance}

\* the flag of the created rows: the teacher's code is the responsible code of
\* an exam of examens_seance
DoitEtreResponsable(corps, enseignant_id, examens_seance) ==
    \E e \in examens_seance :
        examens[e].enseignant = enseignants[enseignant_id].code_smartex

\* one row per exam of examens_seance for the teacher
NouvellesAffectations(enseignant_id, examens_seance, doit_etre_responsable) ==
    SetToBag({[examen_id |-> e,
               enseignant_id |-> enseignant_id,
               cod_salle |-> examens[e].cod_salle,
               est_responsable |-> doit_etre_responsable] : e \in examens_seance})

\* variant: every refusal is answered 404
ErreurHttp_Toujours404(op, corps, status_code, detail) ==
    [op |-> op, etat |-> "http_404", detail |-> detail, corps |-> corps]

\* HTTPException(status_code, detail) raised by the endpoint op
ErreurHttp(op, corps, status_code, detail) ==
    [op |-> op, etat |-> status_code, detail |-> detail, corps |-> corps]

\* AffectationOperationResponse of an add
ReponseAjout(op, corps, nb_affectations, doit_etre_responsable) ==
    [op |-> op, etat |-> "retour", corps |-> corps,
     nb_affectations_modifiees |-> nb_affectations,
     est_responsable |-> doit_etre_responsable]

\* the checks and the inserts shared by the two add endpoints, on the exams
\* examens_seance that the endpoint op selected
AjouterAuxExamens(op, corps, enseignant_id, examens_seance) ==
    /\ UNCHANGED <<enseignants, grade_configs, examens, voeux, parametres, en_cours>>
    /\ IF enseignant_id \notin DOMAIN enseignants
       THEN /\ reponse' = ErreurHttp(op, corps, "http_404", "enseignant_introuvable")
            /\ UNCHANGED affectations
       ELSE IF ~enseignants[enseignant_id].participe_surveillance
       THEN /\ reponse' = ErreurHttp(op, corps, "http_400", "ne_participe_pas")
            /\ UNCHANGED affectations
       ELSE IF examens_seance = {}
       THEN /\ reponse' = ErreurHttp(op, corps, "http_404", "aucun_examen")
            /\ UNCHANGED affectations
       ELSE IF AffectationsExistantes(enseignant_id, examens_seance) # {}
       THEN /\ reponse' = ErreurHttp(op, corps, "http_400", "deja_affecte")
            /\ UNCHANGED affectations
       ELSE LET doit_etre_responsable ==
                    DoitEtreResponsable(corps, enseignant_id, examens_seance)
            IN /\ affectations' = affectations (+)
                       NouvellesAffectations(enseignant_id, examens_seance,
                                             doit_etre_responsable)
               /\ reponse' = ReponseAjout(op, corps, Cardinality(examens_seance),
                                          doit_etre_responsable)

\* POST /planning/ajouter-enseignant-seance: the teacher gets one row per
\* exam of the session (dateExam, h_debut, h_fin, session, semestre), flagged
\* when the teacher is the responsible of an exam of the session
AjouterEnseignantSeance(corps) ==
    LET request == AjouterEnseignantSeanceRequest(corps)
    IN AjouterAuxExamens("ajouter_enseignant_seance", corps, request.enseignant_id,
                         ExamensDeLaSeance(request))

\* POST /planning/ajouter-enseignant-par-date-heure: the same on the exams of
\* the date and start time
AjouterEnseignantParDateHeure(corps) ==
    LET request == AjouterEnseignantParDateHeureRequest(corps)
    IN AjouterAuxExamens("ajouter_enseignant_par_date_heure", corps,
                         request.enseignant_id, ExamensParDateHeure(request))

\* variant: every row of the teachers of lignes leaves the store
SupprimerLignes_ToutesSeances(lignes) ==
    LET restent == {l \in BagToSet(affectations) :
                        \A d \in lignes : l.enseignant_id # d.enseignant_id}
    IN IF restent = {} THEN EmptyBag
       ELSE [l \in restent |-> CopiesIn(l, affectations)]

\* the store without the rows lignes
SupprimerLignes(lignes) ==
    IF BagToSet(affectations) \subseteq lignes THEN EmptyBag
    ELSE [l \in BagToSet(affectations) \ lignes |-> CopiesIn(l, affectations)]

\* the number of row objects of the store among lignes
NbSupprimees(lignes) ==
    Somme([l \in lignes |-> CopiesIn(l, affectations)], lignes)

\* DELETE /planning/supprimer-enseignant-seance: the rows of the teacher on the
\* exams of the session are deleted
SupprimerEnseignantSeance(corps) ==
    LET op == "supprimer_enseignant_seance"
        request == SupprimerEnseignantSeanceRequest(corps)
        examens_seance == ExamensDeLaSeance(request)
        affectations_a_supprimer ==
            AffectationsExistantes(request.enseignant_id, examens_seance)
    IN
    /\ UNCHANGED <<enseignants, grade_configs, examens, voeux, parametres, en_cours>>
    /\ IF request.enseignant_id \notin DOMAIN enseignants
       THEN /\ reponse' = ErreurHttp(op, corps, "http_404", "enseignant_introuvable")
            /\ UNCHANGED affectations
       ELSE IF examens_seance = {}
       THEN /\ reponse' = ErreurHttp(op, corps, "http_404", "aucun_examen")
            /\ UNCHANGED affectations
       ELSE IF affectations_a_supprimer = {}
       THEN /\ reponse' = ErreurHttp(op, corps, "http_404", "non_affecte")
            /\ UNCHANGED affectations
       ELSE /\ affectations' = SupprimerLignes(affectations_a_supprimer)
            /\ reponse' = [op |-> op, etat |-> "retour", corps |-> corps,
                           nb_affectations_modifiees |->
                               NbSupprimees(affectations_a_supprimer)]

\* PUT /enseignants/{enseignant_id} with participe_surveillance in the body
ModifierEnseignant(enseignant_id, participe_surveillance) ==
    /\ UNCHANGED <<grade_configs, examens, voeux, affectations, parametres, en_cours>>
    /\ IF enseignant_id \notin DOMAIN enseignants
       THEN /\ reponse' = [op |-> "modifier_enseignant", etat |-> "http_404"]
            /\ UNCHANGED enseignants
       ELSE /\ enseignants' = [enseignants EXCEPT
                                  ![enseignant_id].participe_surveillance =
                                      participe_surveillance]
            /\ reponse' = [op |-> "modifier_enseignant", etat |-> "retour"]

\* the sessions of the exams of the table, a slot without exam and the first
\* slot with another end time
CreneauxDemandes ==
    {<<examens[e].dateExam, examens[e].h_debut, examens[e].h_fin,
       examens[e].session, examens[e].semestre>> : e \in DOMAIN examens}
        \cup {<<0, H1, H1 + 90, 1, 1>>, <<1, H1, H1 + 60, 1, 1>>}

\* a session asked for a teacher of the table or for an id of no teacher
AjouterEnseignant ==
    \E enseignant_id \in DOMAIN enseignants \cup {0} :
        \E c \in CreneauxDemandes \ {<<1, H1, H1 + 60, 1, 1>>} :
            AjouterEnseignantSeance(Corps(enseignant_id, c, FALSE))

ModifierParticipation ==
    \E enseignant_id \in DOMAIN enseignants \cup {0} : \E participe_surveillance \in BOOLEAN :
        ModifierEnseignant(enseignant_id, participe_surveillance)

NextPlanning ==
    \/ GenererPlanningV3
    \/ ReinitialiserPlanning
    \/ AjouterEnseignant
    \/ ModifierParticipation

\* scheduler runs between manual adds and changes of participation: eligible
\* teachers of grade PR, at most two exams on two slots, the responsible code
\* of an exam empty or the code of teacher 1
InitPlanning ==
    InitAvec({[i \in 1..MaxEns |-> Enseignant(i, "PR", TRUE)]},
             {[g \in {"PR"} |-> MaxQuota]},
             Lots(<<Jour1S1, Jour1S2>>, 2, {CodeVide, CodeSmartex(1)}),
             Requetes({1}, {FALSE}))

SpecPlanning == InitPlanning /\ [][NextPlanning]_vars

\* manual requests for a teacher of the table or for an id of no teacher, with
\* est_responsable true or false in the body
AjouterSeance ==
    \E enseignant_id \in DOMAIN enseignants \cup {0} :
        \E c \in CreneauxDemandes : \E est_responsable \in BOOLEAN :
            AjouterEnseignantSeance(Corps(enseignant_id, c, est_responsable))

AjouterParDateHeure ==
    \E enseignant_id \in DOMAIN enseignants \cup {0} :
        \E c \in CreneauxDemandes :
            AjouterEnseignantParDateHeure(Corps(enseignant_id, c, FALSE))

SupprimerSeance ==
    \E enseignant_id \in DOMAIN enseignants \cup {0} :
        \E c \in CreneauxDemandes :
            SupprimerEnseignantSeance(Corps(enseignant_id, c, FALSE))

NextManuel ==
    \/ GenererPlanningV3
    \/ AjouterSeance
    \/ AjouterParDateHeure
    \/ SupprimerSeance

\* three exams: two of the first slot in semester 1 and one either of the
\* first slot in semester 2 or of the second slot; the responsible code of the
\* first exam is empty or the code of teacher 1
LotsManuel ==
    {LotExamens(<<Jour1S1, Jour1S1, c>>, <<r, CodeVide, CodeVide>>) :
        c \in {Jour1S1Sem2, Jour1S2}, r \in {CodeVide, CodeSmartex(1)}}

\* teachers of grade PR, the last one taking part in the surveillance or not
TablesManuel ==
    {[i \in 1..MaxEns |-> Enseignant(i, "PR", i < MaxEns \/ p)] : p \in BOOLEAN}

InitManuel ==
    InitAvec(TablesManuel, {[g \in {"PR"} |-> MaxQuota]}, LotsManuel,
             Requetes({1}, {FALSE}))

\* scheduler runs between manual adds and removals
SpecManuel == InitManuel /\ [][NextManuel]_vars

\* ----------------------------------------------- add requests side by side
\* the exams the add endpoint op selects for the body corps
ExamensSelectionnes(op, corps) ==
    IF op = "ajouter_enseignant_seance"
    THEN ExamensDeLaSeance(AjouterEnseignantSeanceRequest(corps))
    ELSE ExamensParDateHeure(AjouterEnseignantParDateHeureRequest(corps))

\* a worker takes an add request and runs the checks of the endpoint on the
\* store as it is: the request is refused, or the worker goes on to its
\* inserts with the exams it selected
VerifierAjout(w, op, corps) ==
    LET enseignant_id == corps.enseignant_id
        examens_seance == ExamensSelectionnes(op, corps)
        refus(status_code, detail) ==
            /\ reponse' = ErreurHttp(op, corps, status_code, detail)
            /\ en_cours' = [en_cours EXCEPT ![w] =
                               [pc |-> "fini", op |-> op, corps |-> corps,
                                etat |-> status_code]]
    IN
    /\ en_cours[w].pc = "libre"
    /\ UNCHANGED <<enseignants, grade_configs, examens, voeux, affectations, parametres>>
    /\ IF enseignant_id \notin DOMAIN enseignants
       THEN refus("http_404", "enseignant_introuvable")
       ELSE IF ~enseignants[enseignant_id].participe_surveillance
       THEN refus("http_400", "ne_participe_pas")
       ELSE IF examens_seance = {}
       THEN refus("http_404", "aucun_examen")
       ELSE IF AffectationsExistantes(enseignant_id, examens_seance) # {}
       THEN refus("http_400", "deja_affecte")
       ELSE /\ en_cours' = [en_cours EXCEPT ![w] =
                               [pc |-> "inserer", op |-> op, corps |-> corps,
                                examens_seance |-> examens_seance,
                                doit_etre_responsable |->
                                    DoitEtreResponsable(corps, enseignant_id,
                                                        examens_seance)]]
            /\ UNCHANGED reponse

\* the worker adds one row per exam it selected and commits; no constraint of
\* the table affectations refuses a second row for an (exam, teacher)
InsererAjout(w) ==
    /\ en_cours[w].pc = "inserer"
    /\ affectations' = affectations (+)
           NouvellesAffectations(en_cours[w].corps.enseignant_id,
                                 en_cours[w].examens_seance,
                                 en_cours[w].doit_etre_responsable)
    /\ reponse' = ReponseAjout(en_cours[w].op, en_cours[w].corps,
                               Cardinality(en_cours[w].examens_seance),
                               en_cours[w].doit_etre_responsable)
    /\ en_cours' = [en_cours EXCEPT ![w] =
                       [pc |-> "fini", op |-> en_cours[w].op,
                        corps |-> en_cours[w].corps, etat |-> "retour"]]
    /\ UNCHANGED <<enseignants, grade_configs, examens, voeux, parametres>>

Verifier ==
    \E w \in Workers : \E op \in {"ajouter_enseignant_seance",
                                  "ajouter_enseignant_par_date_heure"} :
        \E enseignant_id \in DOMAIN enseignants : \E c \in CreneauxDemandes :
            VerifierAjout(w, op, Corps(enseignant_id, c, FALSE))

Inserer == \E w \in Workers : InsererAjout(w)

NextConcurrent ==
    \/ Verifier
    \/ Inserer

\* one add request per worker, on the exams and the teachers of InitManuel
SpecConcurrent == InitManuel /\ [][NextConcurrent]_vars

\* ------------------------------------------------- grouping on its own
\* a row of the table examens with a session type; ligne = <<dateExam,
\* h_debut, semestre, session>>
ExamenSession(i, ligne) ==
    [Examen(i, <<ligne[1], ligne[2], ligne[3]>>, CodeVide) EXCEPT !.session = ligne[4]]

\* rows for the grouping: three dates, in-range and out-of-range start times
\* (07:00 falls back to S1, 17:30 to S3), two semesters, two session types
LignesGroupement ==
    {<<1, H1, 1, 1>>, <<1, H1, 2, 1>>, <<1, H1, 1, 2>>,
     <<2, 7 * 60, 1, 1>>, <<3, H3, 1, 1>>, <<3, 17 * 60 + 30, 1, 1>>}

\* exams tables of at most MaxExam rows in any order of dates and times, and
\* the tables of one exam starting at each minute of the day
LotsGroupement ==
    UNION {{[i \in 1..n |-> ExamenSession(i, c[i])] : c \in [1..n -> LignesGroupement]} :
             n \in 0..MaxExam}
        \cup {[i \in {1} |-> ExamenSession(i, <<1, t, 1, 1>>)] : t \in 0..(24 * 60 - 1)}

InitGroupement ==
    InitAvec({[i \in {1} |-> Enseignant(i, "PR", TRUE)]}, {<<>>}, LotsGroupement,
             Requetes({1}, {FALSE}))

\* the lists that hold every element of S once
Ordres(S) ==
    {o \in [1..Cardinality(S) -> S] : \A i, j \in DOMAIN o : o[i] = o[j] => i = j}

\* _grouper_examens_par_seance called on the exams in the order ordre
GrouperExamens ==
    /\ \E ordre \in Ordres(DOMAIN examens) :
           reponse' = [op |-> "_grouper_examens_par_seance", ordre |-> ordre,
                       seances |-> GrouperSelonOrdre(examens, ordre)]
    /\ UNCHANGED <<enseignants, grade_configs, examens, voeux, affectations, parametres, en_cours>>

\* _get_seance_code_from_time called on the start time of an exam
DeriverCodeSeance ==
    /\ \E e \in DOMAIN examens :
           reponse' = [op |-> "_get_seance_code_from_time", heure |-> examens[e].h_debut,
                       code |-> GetSeanceCodeFromTime(examens[e].h_debut)]
    /\ UNCHANGED <<enseignants, grade_configs, examens, voeux, affectations, parametres, en_cours>>

NextGroupement ==
    \/ GrouperExamens
    \/ DeriverCodeSeance

SpecGroupement == InitGroupement /\ [][NextGroupement]_vars

\* --------------------------------------------------------- observed output
\* the last request handled was a scheduler run that ended with the status
\* OPTIMAL or FEASIBLE and saved its solution
SuccesGeneration == reponse.op = "generer_planning_optimise" /\ reponse.success

\* the rows of the table affectations
Lignes == BagToSet(affectations)

\* the sessions of the stored exams: the grouping keys (date, slot code,
\* semester, session type)
ClesSeances == {CleSeance(examens[e]) : e \in DOMAIN examens}

\* the exams of the session with key k, and their number n_s
ExamensSeance(k) == {e \in DOMAIN examens : CleSeance(examens[e]) = k}
NbExamens(k) == Cardinality(ExamensSeance(k))

\* the teachers with a row for an exam of the session with key k, and cover(s)
SurveillantsSeance(k) == {l.enseignant_id : l \in {r \in Lignes : r.examen_id \in ExamensSeance(k)}}
Couverture(k) == Cardinality(SurveillantsSeance(k))

\* load of teacher t: the number of sessions t has a row in
ChargeObservee(t) == Cardinality({k \in ClesSeances : t \in SurveillantsSeance(k)})

Eligibles == EnseignantsEligibles(enseignants)

\* two distinct eligible teachers of the same grade
MemeGrade(t1, t2) ==
    /\ t1 \in Eligibles /\ t2 \in Eligibles /\ t1 # t2
    /\ enseignants[t1].grade_code = enseignants[t2].grade_code

\* the quota of teacher t: nb_surveillances of the grade of t, 2 when the
\* grade has no configuration row
QuotaDe(t) ==
    IF enseignants[t].grade_code \in DOMAIN grade_configs
    THEN grade_configs[enseignants[t].grade_code]
    ELSE 2

\* Q: the sum over the eligible teachers of the quota of their grade
QuotaTotal ==
    LET q == [t \in Eligibles |-> QuotaDe(t)]
    IN Somme(q, Eligibles)

\* D: the sum over the sessions of n_s * m
DemandeTotale ==
    LET d == [k \in ClesSeances |-> NbExamens(k) * parametres.min_surveillants_par_salle]
    IN Somme(d, ClesSeances)

\* ------------------------------------------------------------------- C1
\* C1 (as stated): in every successful output any two eligible teachers of
\* the same grade have the same load, so an instance where equal loads are
\* impossible is never solved.
C1_EgaliteGrades ==
    SuccesGeneration =>
        \A t1, t2 \in DOMAIN enseignants :
            MemeGrade(t1, t2) => ChargeObservee(t1) = ChargeObservee(t2)

\* C1 (amended): in every successful output the loads of two eligible
\* teachers of the same grade both lie between 0 and the quota of the grade,
\* so they differ by at most that quota; equality is not imposed.
C1_EcartBorneParQuota ==
    SuccesGeneration =>
        \A t1, t2 \in DOMAIN enseignants :
            MemeGrade(t1, t2) =>
                ChargeObservee(t1) - ChargeObservee(t2) <= QuotaDe(t1)

\* C1 witness: a successful output in which two teachers of one grade have
\* unequal loads, one of them loaded up to the quota of the grade
C1_ChargesInegales ==
    /\ SuccesGeneration
    /\ \E t1, t2 \in DOMAIN enseignants :
           /\ MemeGrade(t1, t2)
           /\ ChargeObservee(t2) = 0
           /\ ChargeObservee(t1) = QuotaDe(t1)
           /\ ChargeObservee(t1) > 0

\* ------------------------------------------------------------------- C2
\* C2: in every successful output every eligible teacher is assigned to at
\* most as many sessions as the quota configured for the teacher's grade,
\* teachers who are responsible for exams included.
C2_QuotaMaximum ==
    SuccesGeneration =>
        \A t \in Eligibles :
            enseignants[t].grade_code \in DOMAIN grade_configs =>
                ChargeObservee(t) <= grade_configs[enseignants[t].grade_code]

\* C2 witness: a successful output in which a teacher responsible for an exam
\* is loaded exactly up to the configured quota while an exam is left that the
\* teacher does not invigilate
C2_ResponsableAuQuota ==
    /\ SuccesGeneration
    /\ \E l \in Lignes :
           /\ l.est_responsable
           /\ enseignants[l.enseignant_id].grade_code \in DOMAIN grade_configs
           /\ ChargeObservee(l.enseignant_id)
                  = grade_configs[enseignants[l.enseignant_id].grade_code]
           /\ \E k \in ClesSeances : l.enseignant_id \notin SurveillantsSeance(k)

\* ------------------------------------------------------------------- C3
\* C3: when Q >= D or allow_fallback is false, every session that has at
\* least n_s eligible teachers is assigned exactly n_s * m teachers in every
\* successful output.
C3_CouvertureNormale ==
    (SuccesGeneration
        /\ (QuotaTotal >= DemandeTotale \/ ~parametres.allow_single_surveillant)) =>
        \A k \in ClesSeances :
            NbExamens(k) <= Cardinality(Eligibles) =>
                Couverture(k) = NbExamens(k) * parametres.min_surveillants_par_salle

\* C3 witness: a successful output in normal mode with fallback allowed and
\* a session that is assigned n_s * m teachers while more are eligible
C3_SeanceExacte ==
    /\ SuccesGeneration
    /\ parametres.allow_single_surveillant
    /\ QuotaTotal >= DemandeTotale
    /\ \E k \in ClesSeances :
           /\ NbExamens(k) <= Cardinality(Eligibles)
           /\ Couverture(k) = NbExamens(k) * parametres.min_surveillants_par_salle
           /\ Couverture(k) < Cardinality(Eligibles)

\* ------------------------------------------------------------------- C4
\* m_floor = max(1, floor((Q / D) * m))
MFloor ==
    Max2(1, (QuotaTotal * parametres.min_surveillants_par_salle) \div DemandeTotale)

\* the run was in adaptive mode: Q < D and allow_fallback is true
AdaptatifObserve == parametres.allow_single_surveillant /\ QuotaTotal < DemandeTotale

\* C4 (as stated): when Q < D and allow_fallback is true, every session of a
\* successful output has n_s * m_floor <= cover(s) <= n_s * m.
C4_CouvertureAdaptativePlancher ==
    (SuccesGeneration /\ AdaptatifObserve) =>
        \A k \in ClesSeances :
            /\ NbExamens(k) * MFloor <= Couverture(k)
            /\ Couverture(k) <= NbExamens(k) * parametres.min_surveillants_par_salle

\* C4 (amended): when Q < D and allow_fallback is true, every session of a
\* successful output has min(n_s, number of eligible teachers) <= cover(s)
\* <= n_s * m: the lower bound is one teacher per exam whatever m is, and all
\* the eligible teachers when they are fewer than the exams of the session.
C4_CouvertureAdaptative ==
    (SuccesGeneration /\ AdaptatifObserve) =>
        \A k \in ClesSeances :
            /\ IF NbExamens(k) <= Cardinality(Eligibles)
               THEN NbExamens(k) <= Couverture(k)
               ELSE Cardinality(Eligibles) <= Couverture(k)
            /\ Couverture(k) <= NbExamens(k) * parametres.min_surveillants_par_salle

\* C4 witness: a successful adaptive output with m >= 3 and m_floor >= 2 in
\* which a session is covered by one teacher per exam while the quotas would
\* let it have more
C4_UnParExamen ==
    /\ SuccesGeneration /\ AdaptatifObserve
    /\ parametres.min_surveillants_par_salle >= 3
    /\ MFloor >= 2
    /\ \E k \in ClesSeances :
           /\ NbExamens(k) <= Cardinality(Eligibles)
           /\ Couverture(k) = NbExamens(k)
           /\ \E t \in Eligibles : t \notin SurveillantsSeance(k) /\ ChargeObservee(t) < QuotaDe(t)

\* ------------------------------------------------------------------- C5
\* C5: in every successful output, for every exam whose responsible code is
\* the code of a teacher with participe_surveillance = true, that teacher is
\* assigned to the session of the exam and the row of (exam, teacher) has
\* est_responsable = true.
C5_ResponsablePresent ==
    SuccesGeneration =>
        \A e \in DOMAIN examens : \A t \in DOMAIN enseignants :
            (enseignants[t].code_smartex = examens[e].enseignant
                /\ enseignants[t].participe_surveillance) =>
                /\ t \in SurveillantsSeance(CleSeance(examens[e]))
                /\ \E l \in Lignes :
                       l.examen_id = e /\ l.enseignant_id = t /\ l.est_responsable

\* C5 witness: a successful output with an exam whose responsible is eligible
\* while another eligible teacher is free to take the session instead
C5_ResponsableAffecte ==
    /\ SuccesGeneration
    /\ \E e \in DOMAIN examens : \E t, u \in DOMAIN enseignants :
           /\ enseignants[t].code_smartex = examens[e].enseignant
           /\ enseignants[t].participe_surveillance
           /\ enseignants[u].participe_surveillance
           /\ u \notin SurveillantsSeance(CleSeance(examens[e]))
           /\ ChargeObservee(u) < QuotaDe(u)
           /\ \E l \in Lignes :
                  l.examen_id = e /\ l.enseignant_id = t /\ l.est_responsable

\* ------------------------------------------------------------------- C6
\* C6: no row written by a scheduler run references a teacher whose
\* participe_surveillance flag is false.
C6_AucunIneligible ==
    SuccesGeneration =>
        \A l \in Lignes : enseignants[l.enseignant_id].participe_surveillance

\* C6 witness: a successful output while the teacher table holds a teacher
\* with the flag false who is the responsible of an exam
C6_IneligibleEcarte ==
    /\ SuccesGeneration
    /\ Lignes # {}
    /\ \E e \in DOMAIN examens : \E t \in DOMAIN enseignants :
           /\ enseignants[t].code_smartex = examens[e].enseignant
           /\ ~enseignants[t].participe_surveillance
           /\ \A l \in Lignes : l.enseignant_id # t

\* ------------------------------------------------------------------- C7
\* the sessions of the day with date d
SeancesDuJour(d) == {k \in ClesSeances : k[1] = d}

\* the first and the last session of a day, the sessions ordered by slot
\* code and, within a slot, in the order the grouping emits them
PremiereSeance(d) ==
    CHOOSE k \in SeancesDuJour(d) : \A j \in SeancesDuJour(d) \ {k} : CleAvant(k, j)
DerniereSeance(d) ==
    CHOOSE k \in SeancesDuJour(d) : \A j \in SeancesDuJour(d) \ {k} : CleAvant(j, k)

\* C7: in every successful output, on every day with at least 3 sessions, no
\* eligible teacher is assigned to both the first and the last session of the
\* day without being assigned to another session of that day.
C7_PremiereDerniereNonIsolees ==
    SuccesGeneration =>
        \A d \in {k[1] : k \in ClesSeances} :
            Cardinality(SeancesDuJour(d)) >= 3 =>
                \A t \in Eligibles :
                    (t \in SurveillantsSeance(PremiereSeance(d))
                        /\ t \in SurveillantsSeance(DerniereSeance(d))) =>
                        \E k \in SeancesDuJour(d) \ {PremiereSeance(d), DerniereSeance(d)} :
                            t \in SurveillantsSeance(k)

\* C7 witness: a successful output on a day of at least 3 sessions in which
\* one teacher has the first, the last and a session in between while
\* another teacher has quota left
C7_PremiereDerniereAccompagnees ==
    /\ SuccesGeneration
    /\ \E d \in {k[1] : k \in ClesSeances} :
           /\ Cardinality(SeancesDuJour(d)) >= 3
           /\ \E t, u \in Eligibles :
                  /\ t \in SurveillantsSeance(PremiereSeance(d))
                  /\ t \in SurveillantsSeance(DerniereSeance(d))
                  /\ \E k \in SeancesDuJour(d) \ {PremiereSeance(d), DerniereSeance(d)} :
                         t \in SurveillantsSeance(k)
                  /\ u # t
                  /\ ChargeObservee(u) < QuotaDe(u)

\* ------------------------------------------------------------------- C8
\* C8 (as stated): in every successful output no teacher is assigned to two
\* distinct sessions that take place at the same date and slot code.
C8_NonConflitHoraire ==
    SuccesGeneration =>
        \A k1, k2 \in ClesSeances :
            (k1 # k2 /\ k1[1] = k2[1] /\ k1[2] = k2[2]) =>
                SurveillantsSeance(k1) \cap SurveillantsSeance(k2) = {}

\* ------------------------------------------------------------------- C9
\* tau(n): max(2, floor(0.05 n)) in normal mode, max(floor(0.5 n (m - 1)), n, 5)
\* in adaptive mode
Tau(n) ==
    IF AdaptatifObserve
    THEN Max2(Max2((n * (parametres.min_surveillants_par_salle - 1)) \div 2, n), 5)
    ELSE Max2(2, n \div 20)

\* C9: in every successful output any two sessions with the same exam count
\* n have coverages that differ by at most tau(n).
C9_EquilibreEntreSeances ==
    SuccesGeneration =>
        \A k1, k2 \in ClesSeances :
            NbExamens(k1) = NbExamens(k2) =>
                Couverture(k1) - Couverture(k2) <= Tau(NbExamens(k1))

\* C9 witness: a successful adaptive output in which two sessions with the
\* same exam count have coverages exactly tau(n) apart, the quotas leaving
\* room for one more teacher in the larger one
C9_EcartMaximal ==
    /\ SuccesGeneration /\ AdaptatifObserve
    /\ \E k1, k2 \in ClesSeances :
           /\ NbExamens(k1) = NbExamens(k2)
           /\ Couverture(k1) - Couverture(k2) = Tau(NbExamens(k1))
           /\ Couverture(k1) < NbExamens(k1) * parametres.min_surveillants_par_salle
           /\ \E t \in Eligibles :
                  t \notin SurveillantsSeance(k1) /\ ChargeObservee(t) < QuotaDe(t)

\* ------------------------------------------------------------------ C10
\* the rows of exam e
LignesExamen(e) == {l \in Lignes : l.examen_id = e}

\* C10: after a successful run the rows are exactly one per (exam of a
\* session, teacher chosen for the session), with the room of the exam; every
\* exam of a session has the same teachers, the returned count is the sum
\* over the sessions of n_s * cover(s), and a row is flagged est_responsable
\* exactly when its teacher is the responsible of its exam.
C10_ExpansionAffectations ==
    SuccesGeneration =>
        LET seances == GrouperExamensParSeance(examens)
            produit == [k \in ClesSeances |-> NbExamens(k) * Couverture(k)]
        IN /\ \A i \in DOMAIN seances : \A e \in Range(seances[i].examens) :
                  {l.enseignant_id : l \in LignesExamen(e)} = reponse.valeurs[i]
           /\ \A l \in Lignes :
                  /\ affectations[l] = 1
                  /\ l.cod_salle = examens[l.examen_id].cod_salle
                  /\ l.est_responsable
                         <=> enseignants[l.enseignant_id].code_smartex
                                 = examens[l.examen_id].enseignant
           /\ \A l1, l2 \in Lignes :
                  (l1.examen_id = l2.examen_id /\ l1.enseignant_id = l2.enseignant_id)
                      => l1 = l2
           /\ \A e1, e2 \in DOMAIN examens :
                  CleSeance(examens[e1]) = CleSeance(examens[e2]) =>
                      {l.enseignant_id : l \in LignesExamen(e1)}
                          = {l.enseignant_id : l \in LignesExamen(e2)}
           /\ reponse.nb_affectations = BagCardinality(affectations)
           /\ reponse.nb_affectations = Somme(produit, ClesSeances)

\* C10 witness: a successful output with a session of two exams invigilated
\* by the responsible of one of them
C10_SeanceDeuxExamens ==
    /\ SuccesGeneration
    /\ \E e1, e2 \in DOMAIN examens : \E l1, l2 \in Lignes :
           /\ e1 # e2
           /\ CleSeance(examens[e1]) = CleSeance(examens[e2])
           /\ l1.examen_id = e1 /\ l2.examen_id = e2
           /\ l1.enseignant_id = l2.enseignant_id
           /\ l1.est_responsable /\ ~l2.est_responsable

\* ------------------------------------------------------------------ C11
\* the last call handled was _grouper_examens_par_seance
GroupementFait == reponse.op = "_grouper_examens_par_seance"

\* two exams have the same date, derived slot code, semester and session type
MemeCreneau(e1, e2) ==
    /\ examens[e1].dateExam = examens[e2].dateExam
    /\ GetSeanceCodeFromTime(examens[e1].h_debut) = GetSeanceCodeFromTime(examens[e2].h_debut)
    /\ examens[e1].semestre = examens[e2].semestre
    /\ examens[e1].session = examens[e2].session

\* the number of places exam e takes in the emitted sessions
NbPlaces(e) ==
    LET n == [i \in DOMAIN reponse.seances |->
                 Cardinality({j \in DOMAIN reponse.seances[i].examens :
                                 reponse.seances[i].examens[j] = e})]
    IN Somme(n, DOMAIN n)

\* C11: the grouping puts every input exam in exactly one session, two exams
\* are in the same session exactly when they have the same (date, derived
\* slot code, semester, session type), no session is empty and no two emitted
\* keys share (date, slot, semester, session type).
C11_GroupementPartition ==
    GroupementFait =>
        LET S == reponse.seances IN
        /\ \A e \in DOMAIN examens : NbPlaces(e) = 1
        /\ \A i \in DOMAIN S : Range(S[i].examens) \subseteq DOMAIN examens
        /\ \A e1, e2 \in DOMAIN examens :
               (\E i \in DOMAIN S : e1 \in Range(S[i].examens) /\ e2 \in Range(S[i].examens))
                   <=> MemeCreneau(e1, e2)
        /\ \A i \in DOMAIN S : S[i].examens # <<>>
        /\ \A i, j \in DOMAIN S :
               SubSeq(S[i].cle, 1, 4) = SubSeq(S[j].cle, 1, 4) => i = j

\* C11 witness: a grouping of three exams into two sessions of the same date
\* and slot, one holding two exams
C11_DeuxSeancesMemeCreneau ==
    /\ GroupementFait
    /\ Cardinality(DOMAIN examens) = 3
    /\ Len(reponse.seances) = 2
    /\ reponse.seances[1].cle[1] = reponse.seances[2].cle[1]
    /\ reponse.seances[1].cle[2] = reponse.seances[2].cle[2]

\* ------------------------------------------------------------------ C12
\* the distinct exam dates of the batch
DatesDuLot == {examens[e].dateExam : e \in DOMAIN examens}

\* C12: the day index of every emitted key is 1 plus the number of distinct
\* exam dates strictly earlier than the date of the key; the indices are
\* 1..k for k distinct dates, and the emitted keys are the same for every
\* order in which the exams are supplied.
C12_IndexJour ==
    GroupementFait =>
        LET S == reponse.seances IN
        /\ \A i \in DOMAIN S :
               S[i].cle[5] = 1 + Cardinality({d \in DatesDuLot : d < S[i].cle[1]})
        /\ {S[i].cle[5] : i \in DOMAIN S} = 1..Cardinality(DatesDuLot)
        /\ \A o \in Ordres(DOMAIN examens) :
               LET T == GrouperSelonOrdre(examens, o)
               IN [i \in DOMAIN T |-> T[i].cle] = [i \in DOMAIN S |-> S[i].cle]

\* C12 witness: a grouping of exams supplied with a later date before an
\* earlier one, over three distinct dates
C12_DatesDansLeDesordre ==
    /\ GroupementFait
    /\ Cardinality(DatesDuLot) = 3
    /\ examens[reponse.ordre[1]].dateExam > examens[reponse.ordre[2]].dateExam
    /\ \E i \in DOMAIN reponse.seances : reponse.seances[i].cle[5] = 3

\* ------------------------------------------------------------------ C13
\* the last call handled was _get_seance_code_from_time
CodeDerive == reponse.op = "_get_seance_code_from_time"

\* C13: _get_seance_code_from_time returns S1 for [08:30,10:30), S2 for
\* [10:30,12:30), S3 for [12:30,14:30), S4 for [14:30,17:00), and outside
\* these ranges S1 when the hour is before 12 and S3 otherwise.
C13_CodeSeance ==
    CodeDerive =>
        LET t == reponse.heure IN
        /\ reponse.code \in {"S1", "S2", "S3", "S4"}
        /\ reponse.code =
               IF 8 * 60 + 30 <= t /\ t < 10 * 60 + 30 THEN "S1"
               ELSE IF 10 * 60 + 30 <= t /\ t < 12 * 60 + 30 THEN "S2"
               ELSE IF 12 * 60 + 30 <= t /\ t < 14 * 60 + 30 THEN "S3"
               ELSE IF 14 * 60 + 30 <= t /\ t < 17 * 60 THEN "S4"
               ELSE IF t \div 60 < 12 THEN "S1" ELSE "S3"

\* C13 witness: the code derived for 17:00, the first minute after the range
\* of S4
C13_ApresS4 ==
    CodeDerive /\ reponse.heure = 17 * 60 /\ reponse.code = "S3"

\* ------------------------------------------------------------------ C14
\* the sessions of the stored exams as a run groups them; the values a run
\* returns are indexed alike
SeancesDuLot == GrouperExamensParSeance(examens)

\* the schedules that satisfy the hard constraints of the last run
SolutionsDuLot ==
    Solutions(SeancesDuLot, enseignants, Eligibles, grade_configs,
              IdentifierResponsables(examens, enseignants),
              reponse.min_surveillants_par_examen,
              ModeAdaptatif(SeancesDuLot, enseignants, Eligibles, grade_configs,
                            reponse.min_surveillants_par_examen, reponse.allow_fallback))

\* a stored wish of teacher t names the day and the slot of session i
VoeuContre(t, i) ==
    \E v \in voeux :
        /\ v.code_smartex_ens = enseignants[t].code_smartex
        /\ v.jour = SeancesDuLot[i].cle[5]
        /\ v.seance = SeancesDuLot[i].cle[2]

\* number of assignments of schedule x to a wished-against session
NbVoeuxContraries(x) ==
    Cardinality({p \in (DOMAIN x) \X Eligibles : p[2] \in x[p[1]] /\ VoeuContre(p[2], p[1])})

\* the objective terms of schedule x other than the wish term
AutresTermes(x) ==
    <<TotalAffectations(x, Eligibles), Dispersion(x, Eligibles),
      DispersionGrades(x, enseignants, Eligibles),
      BonusConsecutivite(x, SeancesDuLot, Eligibles)>>

\* the value of the objective the run builds for schedule x
ScoreConstruit(x) ==
    ScoreCombine(x, SeancesDuLot, enseignants, Eligibles,
                 AvecVoeu(TrierEtAfficherVoeux(voeux), SeancesDuLot, enseignants, Eligibles))

\* the last run returned, with the status OPTIMAL, a schedule that maximises
\* the objective over the schedules in sols
RetourOptimal(sols) ==
    /\ SuccesGeneration
    /\ reponse.status = "OPTIMAL"
    /\ \A y \in sols : ScoreConstruit(y) <= ScoreConstruit(reponse.valeurs)

\* C14: wishes are penalised by the objective: when a schedule satisfying the
\* hard constraints exists that does not assign teacher t to a session t
\* wished against, has fewer wished-against assignments and is equal on all
\* the other objective terms, the returned optimal schedule does not assign t
\* to that session.
C14_VoeuxPenalises ==
    \A sols \in {IF SuccesGeneration THEN SolutionsDuLot ELSE {}} :
        RetourOptimal(sols) =>
            \A i \in DOMAIN reponse.valeurs : \A t \in Eligibles :
                (/\ VoeuContre(t, i)
                 /\ \E y \in sols :
                        /\ t \notin y[i]
                        /\ NbVoeuxContraries(y) < NbVoeuxContraries(reponse.valeurs)
                        /\ AutresTermes(y) = AutresTermes(reponse.valeurs))
                    => t \notin reponse.valeurs[i]

\* ------------------------------------------------------------------ C15
\* the last request handled was a scheduler run
GenerationFaite == reponse.op = "generer_planning_optimise"

\* C15: no exception crosses the scheduler boundary: every run with
\* min_surveillants_par_examen >= 1 (m = 1 with the fallback allowed and the
\* total quota below the demand included, unconfigured grades included)
\* returns a (success, count, time, messages) result and never raises.
C15_AucuneException ==
    (GenerationFaite /\ reponse.min_surveillants_par_examen >= 1) => reponse.etat = "retour"

\* ------------------------------------------------------------------ C16
\* the last request handled was a scheduler run that reached the solver
SolveurAppele == GenerationFaite /\ reponse.status \in Statuts

\* the lines of a diagnosis
LignesDiagnostic ==
    {"test_1_ok", "test_2_ok", "test_2_echec", "test_3_ok", "test_3_echec",
     "capacite_limite", "test_4_ok", "test_4_echec", "test_5_compatibles",
     "conclusion_contraintes_ok"}

\* the lines a failed run appends after its warnings: the failure line, the
\* diagnosis title and the diagnosis
FinDiagnostic(messages) ==
    \E k \in 1..(Len(messages) - 2) :
        /\ messages[k] = "aucune_solution"
        /\ messages[k + 1] = "diagnostic_des_contraintes"
        /\ messages[k + 2] = "test_1_ok"
        /\ \A j \in (k + 2)..Len(messages) : messages[j] \in LignesDiagnostic

\* C16: a run that reaches the solver returns success = true and writes
\* assignments if and only if the status is OPTIMAL or FEASIBLE; for every
\* other status it returns success = false with 0 assignments, leaves no
\* assignment in the store and returns its warnings followed by the
\* diagnosis, in the same shape whether the model is infeasible or the
\* solver stopped without a solution.
C16_TraitementResultat ==
    SolveurAppele =>
        /\ reponse.success <=> reponse.status \in {"OPTIMAL", "FEASIBLE"}
        /\ reponse.success =>
               /\ Lignes # {}
               /\ reponse.nb_affectations = Cardinality(Lignes)
               /\ reponse.valeurs # SansValeurs
        /\ ~reponse.success =>
               /\ reponse.nb_affectations = 0
               /\ Lignes = {}
               /\ reponse.valeurs = SansValeurs
               /\ FinDiagnostic(reponse.messages)
               /\ DOMAIN reponse = {"op", "etat", "success", "nb_affectations", "status",
                                    "valeurs", "min_surveillants_par_examen",
                                    "allow_fallback", "messages", "nb_supprimees"}
               /\ reponse.etat = "retour"

\* C16 witness: the solver stopped without a solution on a model that has
\* one, and the run reported the failure with the diagnosis after a warning
C16_ArretSansSolution ==
    /\ SolveurAppele
    /\ reponse.status = "UNKNOWN"
    /\ ~reponse.success
    /\ Len(reponse.messages) > 3
    /\ Lignes = {}
    /\ SolutionsDuLot # {}

\* ------------------------------------------------------------------ C17
\* no teacher of the table takes part in invigilation
AucunEligible == \A t \in DOMAIN enseignants : ~enseignants[t].participe_surveillance

\* C17: a run started with no eligible teacher or no exam returns failure
\* (success = false, 0 assignments) with exactly one message, calls no solver
\* and leaves the stored assignments as they were.
C17_EntreeVide ==
    [][(reponse'.op = "generer_planning_optimise" /\ (AucunEligible \/ DOMAIN examens = {}))
          => /\ affectations' = affectations
             /\ ~reponse'.success
             /\ reponse'.nb_affectations = 0
             /\ Len(reponse'.messages) = 1
             /\ reponse'.status = "NONE"
             /\ reponse'.valeurs = SansValeurs
             /\ reponse'.etat = "retour"]_vars

\* C17 witness: a run that found no eligible teacher returned its one message
\* and the rows of an earlier run are still stored
C17_LignesConservees ==
    /\ GenerationFaite
    /\ AucunEligible
    /\ DOMAIN examens # {}
    /\ Lignes # {}
    /\ reponse.messages = <<"aucun_enseignant">>

\* ------------------------------------------------------------------ C18
\* the expansion of schedule x: one row per exam of a session and teacher
\* of the session
Expansion(x) ==
    UNION {{[examen_id |-> e,
             enseignant_id |-> t,
             cod_salle |-> examens[e].cod_salle,
             est_responsable |->
                 (examens[e].enseignant # CodeVide
                     /\ examens[e].enseignant = enseignants[t].code_smartex)] :
               e \in Range(SeancesDuLot[i].examens), t \in x[i]} : i \in DOMAIN x}

\* C18: a run that passes the empty-input checks replaces the stored
\* assignments: after a successful run the store holds exactly one copy of
\* each row of the expansion of the new schedule and no other row, whatever
\* it held before (rows of an earlier run or of a manual add); after a run
\* that fails once past the checks the store is empty.
C18_RemplacementLot ==
    [][(reponse'.op = "generer_planning_optimise" /\ ~AucunEligible /\ DOMAIN examens # {})
          => /\ reponse'.success => affectations' = SetToBag(Expansion(reponse'.valeurs))
             /\ ~reponse'.success => affectations' = EmptyBag]_vars

\* C18 witness: a successful run deleted more stored rows than it wrote, and
\* the store holds the expansion of its schedule only
C18_AnciennesLignesParties ==
    /\ SuccesGeneration
    /\ reponse.nb_supprimees > reponse.nb_affectations
    /\ affectations = SetToBag(Expansion(reponse.valeurs))
    /\ BagCardinality(affectations) = reponse.nb_affectations

\* ------------------------------------------------------------------ C19
\* the sessions with more exams than there are eligible teachers
SeancesEnPenurie == {k \in ClesSeances : NbExamens(k) > Cardinality(Eligibles)}

\* number of lines of the list messages that carry the tag
NbLignes(messages, tag) == Cardinality({j \in DOMAIN messages : messages[j] = tag})

\* C19: a session with more exams than eligible teachers only has to be
\* covered by every eligible teacher: a run that reaches the solver records
\* one warning per such session; a successful output covers each of them with
\* exactly the eligible teachers (fewer than n_s, so neither the exact nor the
\* ranged coverage holds); and when every session is of that kind and every
\* eligible teacher's quota allows all the sessions, the model is not
\* infeasible.
C19_Penurie ==
    SolveurAppele =>
        /\ NbLignes(reponse.messages, "seance_critique") = Cardinality(SeancesEnPenurie)
        /\ SuccesGeneration =>
               \A k \in SeancesEnPenurie :
                   /\ SurveillantsSeance(k) = Eligibles
                   /\ Couverture(k) < NbExamens(k)
        /\ (/\ SeancesEnPenurie = ClesSeances
            /\ \A t \in Eligibles : QuotaDe(t) >= Cardinality(ClesSeances))
               => reponse.status # "INFEASIBLE"

\* C19 witness: a successful run with a session of more exams than eligible
\* teachers, its warning returned
C19_SeanceEnPenurie ==
    /\ SuccesGeneration
    /\ SeancesEnPenurie # {}
    /\ NbLignes(reponse.messages, "seance_critique") >= 1
    /\ \E k \in SeancesEnPenurie : Couverture(k) = Cardinality(Eligibles)

\* ------------------------------------------------------------------ C20
\* the code is the code_smartex of an eligible teacher
CodeEligible(code) ==
    \E t \in DOMAIN enseignants :
        enseignants[t].participe_surveillance /\ enseignants[t].code_smartex = code

\* the code is the code_smartex of some teacher
CodeConnu(code) == \E t \in DOMAIN enseignants : enseignants[t].code_smartex = code

\* the exams table with the responsible codes of no eligible teacher emptied
ExamensSansCodesInconnus ==
    [e \in DOMAIN examens |->
        IF CodeEligible(examens[e].enseignant) THEN examens[e]
        ELSE [examens[e] EXCEPT !.enseignant = CodeVide]]

\* the wishes table without the wishes under the code of no eligible teacher
VoeuxSansCodesInconnus == {v \in voeux : CodeEligible(v.code_smartex_ens)}

\* the schedules that satisfy the hard constraints of the last run when it is
\* given ExamensSansCodesInconnus
SolutionsSansCodesInconnus ==
    LET seances == GrouperExamensParSeance(ExamensSansCodesInconnus) IN
    Solutions(seances, enseignants, Eligibles, grade_configs,
              IdentifierResponsables(ExamensSansCodesInconnus, enseignants),
              reponse.min_surveillants_par_examen,
              ModeAdaptatif(seances, enseignants, Eligibles, grade_configs,
                            reponse.min_surveillants_par_examen, reponse.allow_fallback))

\* the value of the objective of schedule x when the run is given
\* VoeuxSansCodesInconnus
ScoreSansCodesInconnus(x) ==
    ScoreCombine(x, SeancesDuLot, enseignants, Eligibles,
                 AvecVoeu(TrierEtAfficherVoeux(VoeuxSansCodesInconnus), SeancesDuLot,
                          enseignants, Eligibles))

\* C20: a responsible code of no teacher or of a teacher who does not take
\* part, and a wish under a code of no eligible teacher, are not fatal: each
\* such responsible code adds one warning, and the schedules satisfying the
\* hard constraints and the objective value of each are the same as without
\* these codes and wishes; the returned schedule is one of them, and the
\* status is INFEASIBLE only when there is none.
C20_CodesInconnus ==
    SolveurAppele =>
        \A sols \in {SolutionsSansCodesInconnus} :
            /\ SolutionsDuLot = sols
            /\ \A x \in sols : ScoreConstruit(x) = ScoreSansCodesInconnus(x)
            /\ SuccesGeneration => reponse.valeurs \in sols
            /\ reponse.status = "INFEASIBLE" => sols = {}
            /\ NbLignes(reponse.messages, "responsable_non_trouve")
                   = Cardinality({e \in DOMAIN examens :
                                     /\ examens[e].enseignant # CodeVide
                                     /\ ~CodeConnu(examens[e].enseignant)})
            /\ NbLignes(reponse.messages, "responsable_non_disponible")
                   = Cardinality({e \in DOMAIN examens :
                                     /\ CodeConnu(examens[e].enseignant)
                                     /\ ~CodeEligible(examens[e].enseignant)})

\* C20 witness: a successful run on one exam with a responsible code of no
\* teacher, one exam whose responsible does not take part, and a wish under
\* a code of no teacher
C20_TroisCodesInconnus ==
    /\ SuccesGeneration
    /\ \E e \in DOMAIN examens :
           examens[e].enseignant # CodeVide /\ ~CodeConnu(examens[e].enseignant)
    /\ \E e \in DOMAIN examens :
           CodeConnu(examens[e].enseignant) /\ ~CodeEligible(examens[e].enseignant)
    /\ \E v \in voeux : ~CodeConnu(v.code_smartex_ens)
    /\ NbLignes(reponse.messages, "responsable_non_trouve") = 1
    /\ NbLignes(reponse.messages, "responsable_non_disponible") = 1

\* ------------------------------------------------ manual adds and removals
\* the exams whose (dateExam, h_debut, h_fin, session, semestre) are those of
\* the body c of a request
ExamensDemandes(c) ==
    {e \in DOMAIN examens :
        <<examens[e].dateExam, examens[e].h_debut, examens[e].h_fin,
          examens[e].session, examens[e].semestre>> =
        <<c.date_examen, c.h_debut, c.h_fin, c.session, c.semestre>>}

\* the last request was answered by op with a success
Reussi(r, op) == r.op = op /\ r.etat = "retour"

\* the rows of the bag b that are of teacher t on an exam of exs
LignesDe(b, t, exs) ==
    {l \in BagToSet(b) : l.enseignant_id = t /\ l.examen_id \in exs}

\* C21: a successful ajouter_enseignant_seance adds to the store exactly one
\* row per exam of the session of the request, each of the teacher of the
\* request, changes no other row, and reports the number of these exams
C21_AjoutUneLigneParExamen ==
    [][Reussi(reponse', "ajouter_enseignant_seance") =>
        LET c == reponse'.corps
            exs == ExamensDemandes(c)
            creees == affectations' (-) affectations
        IN /\ affectations' = affectations (+) creees
           /\ BagCardinality(creees) = Cardinality(exs)
           /\ \A l \in BagToSet(creees) :
                l.enseignant_id = c.enseignant_id /\ l.examen_id \in exs
           /\ \A e \in exs : \E l \in BagToSet(creees) : l.examen_id = e
           /\ LignesDe(affectations, c.enseignant_id, exs) = {}
           /\ enseignants[c.enseignant_id].participe_surveillance
           /\ reponse'.nb_affectations_modifiees = Cardinality(exs)]_vars

\* a teacher was added to the session of two exams while the third exam, of
\* another session, has no row of this teacher
C21_AjoutSeanceDeuxExamens ==
    /\ Reussi(reponse, "ajouter_enseignant_seance")
    /\ reponse.nb_affectations_modifiees = 2
    /\ Cardinality(LignesDe(affectations, reponse.corps.enseignant_id,
                            DOMAIN examens)) = 2
    /\ Cardinality(DOMAIN examens) = 3

\* C22: a successful ajouter_enseignant_seance whose body carries
\* est_responsable = true flags every row it creates est_responsable = true,
\* whether or not the teacher's code is the responsible code of an exam of the
\* session
C22_ResponsableDemande ==
    [][(Reussi(reponse', "ajouter_enseignant_seance")
            /\ reponse'.corps.est_responsable) =>
        \A l \in BagToSet(affectations' (-) affectations) : l.est_responsable]_vars

\* the exams of the date and start time of the body c of a request
ExamensDateHeure(c) ==
    {e \in DOMAIN examens :
        examens[e].dateExam = c.date_examen /\ examens[e].h_debut = c.h_debut}

\* the exams an add request r selects: those of the session for
\* ajouter_enseignant_seance, those of the date and start time for
\* ajouter_enseignant_par_date_heure
ExamensVises(r) ==
    IF r.op = "ajouter_enseignant_seance" THEN ExamensDemandes(r.corps)
    ELSE ExamensDateHeure(r.corps)

OperationsAjout == {"ajouter_enseignant_seance", "ajouter_enseignant_par_date_heure"}

\* the bag b holds one row at most per (exam, teacher)
SansDoublon(b) ==
    /\ \A l \in BagToSet(b) : CopiesIn(l, b) = 1
    /\ \A l1, l2 \in BagToSet(b) :
            (l1.examen_id = l2.examen_id /\ l1.enseignant_id = l2.enseignant_id)
                => l1 = l2

\* C23: an add for a teacher who already has a row on an exam the request
\* selects is answered 400 and leaves the store as it was, and after every
\* scheduler run, add and removal the store holds one row at most per
\* (exam, teacher)
C23_PasDeDoublon ==
    [][/\ (/\ reponse'.op \in OperationsAjout
           /\ LignesDe(affectations, reponse'.corps.enseignant_id,
                       ExamensVises(reponse')) # {})
            => (reponse'.etat = "http_400" /\ affectations' = affectations)
       /\ SansDoublon(affectations')]_vars

\* an add by date and start time was refused for a teacher who has rows on
\* some of the exams of this date and start time only, after a scheduler run
\* or an add to one of the two sessions of the slot
C23_AjoutRefuse ==
    /\ reponse.op = "ajouter_enseignant_par_date_heure"
    /\ reponse.etat = "http_400"
    /\ reponse.detail = "deja_affecte"
    /\ LET deja == LignesDe(affectations, reponse.corps.enseignant_id,
                            ExamensDateHeure(reponse.corps))
       IN deja # {} /\ Cardinality(deja) < Cardinality(ExamensDateHeure(reponse.corps))

\* the bag b without its rows of teacher t on the exams exs
SansLignesDe(b, t, exs) ==
    LET restent == BagToSet(b) \ LignesDe(b, t, exs)
    IN IF restent = {} THEN EmptyBag ELSE [l \in restent |-> CopiesIn(l, b)]

\* C24: a successful supprimer_enseignant_seance deletes every row of the
\* teacher on the exams of the session of the request and no other row, and
\* reports the number of deleted rows; a successful ajouter_enseignant_seance
\* only adds rows of the teacher on the exams of the session to a store that
\* held none, so that the removal with the same parameters gives back the
\* store the add started from
C24_SuppressionSeance ==
    [][/\ Reussi(reponse', "supprimer_enseignant_seance") =>
            LET c == reponse'.corps
                exs == ExamensDemandes(c)
            IN /\ affectations' = SansLignesDe(affectations, c.enseignant_id, exs)
               /\ reponse'.nb_affectations_modifiees =
                      BagCardinality(affectations) - BagCardinality(affectations')
               /\ reponse'.nb_affectations_modifiees > 0
       /\ Reussi(reponse', "ajouter_enseignant_seance") =>
            LET c == reponse'.corps
            IN affectations =
                   SansLignesDe(affectations', c.enseignant_id, ExamensDemandes(c))
       /\ (/\ Reussi(reponse, "ajouter_enseignant_seance")
           /\ Reussi(reponse', "supprimer_enseignant_seance")
           /\ AjouterEnseignantSeanceRequest(reponse.corps) =
                  SupprimerEnseignantSeanceRequest(reponse'.corps))
            => reponse'.nb_affectations_modifiees = reponse.nb_affectations_modifiees]_vars

\* a teacher was removed from the session of two exams and the store keeps
\* rows of another teacher or of another session
C24_DeuxLignesSupprimees ==
    /\ Reussi(reponse, "supprimer_enseignant_seance")
    /\ reponse.nb_affectations_modifiees = 2
    /\ LignesDe(affectations, reponse.corps.enseignant_id,
                ExamensDemandes(reponse.corps)) = {}
    /\ \E l \in BagToSet(affectations) :
            l.enseignant_id = reponse.corps.enseignant_id
    /\ \E l \in BagToSet(affectations) :
            l.enseignant_id # reponse.corps.enseignant_id

OperationsManuelles == OperationsAjout \cup {"supprimer_enseignant_seance"}

\* the request r was refused
Refuse(r) == r.op \in OperationsManuelles /\ r.etat \in {"http_400", "http_404"}

\* the teacher of the body c exists
EnseignantConnu(c) == c.enseignant_id \in DOMAIN enseignants

\* what the refusals have in common in the claim and in its amended form: a
\* refused request leaves the store as it was, an id of no teacher is answered
\* 404 by the teacher check, whatever the session, and a removal for a teacher
\* without row on the session is answered 404
RefusCommuns ==
    /\ Refuse(reponse') => affectations' = affectations
    /\ (reponse'.op \in OperationsManuelles /\ ~EnseignantConnu(reponse'.corps))
        => (reponse'.etat = "http_404" /\ reponse'.detail = "enseignant_introuvable")
    /\ (/\ reponse'.op = "supprimer_enseignant_seance"
        /\ EnseignantConnu(reponse'.corps)
        /\ LignesDe(affectations, reponse'.corps.enseignant_id,
                    ExamensDemandes(reponse'.corps)) = {})
        => reponse'.etat = "http_404"

\* C25: a refused manual request leaves the store unchanged; the answer is 404
\* when the teacher id does not exist or no exam matches the session, an add
\* is answered 400 when the teacher does not take part in the surveillance, a
\* removal 404 when the teacher has no row in the session, and the teacher
\* check comes before the session check
C25_RefusSansEffet ==
    [][/\ RefusCommuns
       /\ (/\ reponse'.op \in {"ajouter_enseignant_seance", "supprimer_enseignant_seance"}
           /\ ExamensDemandes(reponse'.corps) = {})
            => reponse'.etat = "http_404"
       /\ (/\ reponse'.op = "ajouter_enseignant_seance"
           /\ EnseignantConnu(reponse'.corps)
           /\ ~enseignants[reponse'.corps.enseignant_id].participe_surveillance)
            => reponse'.etat = "http_400"]_vars

\* C25 (amended): as C25, but an add for a teacher who does not take part in
\* the surveillance is answered 400 also when no exam matches the session: the
\* answer of an add is 404 for an unmatched session only when the teacher
\* exists and takes part in the surveillance
C25_RefusOrdonnes ==
    [][/\ RefusCommuns
       /\ (/\ reponse'.op = "supprimer_enseignant_seance"
           /\ ExamensDemandes(reponse'.corps) = {})
            => reponse'.etat = "http_404"
       /\ (/\ reponse'.op = "ajouter_enseignant_seance"
           /\ EnseignantConnu(reponse'.corps)
           /\ ~enseignants[reponse'.corps.enseignant_id].participe_surveillance)
            => (reponse'.etat = "http_400" /\ reponse'.detail = "ne_participe_pas")
       /\ (/\ reponse'.op = "ajouter_enseignant_seance"
           /\ EnseignantConnu(reponse'.corps)
           /\ enseignants[reponse'.corps.enseignant_id].participe_surveillance
           /\ ExamensDemandes(reponse'.corps) = {})
            => (reponse'.etat = "http_404" /\ reponse'.detail = "aucun_examen")]_vars

\* an add to a session without exam was answered 400 for a teacher who does
\* not take part in the surveillance, while the store holds rows
C25_NonParticipantSansSeance ==
    /\ reponse.op = "ajouter_enseignant_seance"
    /\ reponse.etat = "http_400"
    /\ EnseignantConnu(reponse.corps)
    /\ ~enseignants[reponse.corps.enseignant_id].participe_surveillance
    /\ ExamensDemandes(reponse.corps) = {}
    /\ affectations # EmptyBag

\* ------------------------------------------------------ grouping score
\* variant: the indicator booleans are linked in one direction only
LiensRegroupement_UnSens(nb_seances_jour, max_seances_jour, a_une_seance, a_plusieurs_seances, seance_isolee, contribution_jour) ==
    /\ a_une_seance => nb_seances_jour >= 1
    /\ a_plusieurs_seances => nb_seances_jour >= 2
    /\ seance_isolee => (a_une_seance /\ ~a_plusieurs_seances)
    /\ contribution_jour \in (0 - 2)..max_seances_jour
    /\ seance_isolee => contribution_jour = 0 - 2
    /\ a_plusieurs_seances => contribution_jour = nb_seances_jour
    /\ ~a_une_seance => contribution_jour = 0

\* the constraints _contrainte_seances_consecutives posts for one teacher and
\* one day of max_seances_jour sessions, nb_seances_jour of them assigned to
\* the teacher: the half-reified links of the three indicator booleans and of
\* contribution_jour, an integer variable of domain -2..max_seances_jour
LiensRegroupement(nb_seances_jour, max_seances_jour, a_une_seance, a_plusieurs_seances, seance_isolee, contribution_jour) ==
    /\ a_une_seance => nb_seances_jour >= 1
    /\ ~a_une_seance => nb_seances_jour = 0
    /\ a_plusieurs_seances => nb_seances_jour >= 2
    /\ ~a_plusieurs_seances => nb_seances_jour <= 1
    /\ seance_isolee => (a_une_seance /\ ~a_plusieurs_seances)
    /\ ~seance_isolee => (~a_une_seance \/ a_plusieurs_seances)
    /\ contribution_jour \in (0 - 2)..max_seances_jour
    /\ seance_isolee => contribution_jour = 0 - 2
    /\ a_plusieurs_seances => contribution_jour = nb_seances_jour
    /\ ~a_une_seance => contribution_jour = 0

\* the values <<a_une_seance, a_plusieurs_seances, seance_isolee,
\* contribution_jour>> the links allow for a teacher with nb_seances_jour
\* sessions out of max_seances_jour
CompletionsRegroupement(nb_seances_jour, max_seances_jour) ==
    {v \in BOOLEAN \X BOOLEAN \X BOOLEAN \X ((0 - 2)..(max_seances_jour + 2)) :
        LiensRegroupement(nb_seances_jour, max_seances_jour, v[1], v[2], v[3], v[4])}

\* the domain of score_regroupement: min_score..max_score
DomaineScoreRegroupement(seances, elig) ==
    LET nb_jours == Cardinality(JoursIndex(seances))
        nb_enseignants == Cardinality(elig)
        max_seances_par_jour ==
            MaxSet({Len(SeancesParJour(seances, j)) : j \in JoursIndex(seances)})
    IN (0 - 2 * nb_jours * nb_enseignants)..(max_seances_par_jour * nb_jours * nb_enseignants)

\* teachers of grade PR with a quota of three sessions; up to three exams on
\* three slots of day 1 and the first slot of day 2, no two in one session
LotsRegroupement ==
    {LotExamens(c, [i \in DOMAIN c |-> CodeVide]) :
        c \in UNION {{q \in Placements(<<Jour1S1, Jour1S2, Jour1S3, Jour2S1>>, n) :
                        \A i \in 1..(n - 1) : q[i] # q[i + 1]} : n \in 1..MaxSeancesJour}}

InitRegroupement ==
    InitAvec({[i \in 1..MaxEns |-> Enseignant(i, "PR", TRUE)]},
             {[g \in {"PR"} |-> MaxQuota + 1]}, LotsRegroupement,
             Requetes({1}, {FALSE}))

\* scheduler runs on exams spread over two days
SpecRegroupement == InitRegroupement /\ [][Next]_vars

\* number of sessions of day j of the last lot that schedule x gives teacher t
NbSeancesJour(x, t, j) ==
    Cardinality({i \in DOMAIN x : SeancesDuLot[i].cle[5] = j /\ t \in x[i]})

\* the grouping score of k sessions in a day: 0, -2 or k
ContributionAttendue(k) == IF k = 0 THEN 0 ELSE IF k = 1 THEN 0 - 2 ELSE k

\* C26: for every schedule a run returns, each teacher
\* and each day with k sessions of the teacher, the links of the grouping
\* score have exactly one solution: a_une_seance = (k >= 1),
\* a_plusieurs_seances = (k >= 2), seance_isolee = (k = 1) and a contribution
\* of 0, -2 or k; the score is the sum of these contributions and lies in the
\* domain of score_regroupement, so the grouping variables exclude no schedule
C26_ScoreRegroupement ==
    SuccesGeneration =>
        \A x \in {reponse.valeurs} :
            LET jours == {SeancesDuLot[i].cle[5] : i \in DOMAIN SeancesDuLot}
                paires == Eligibles \X jours
                k(p) == NbSeancesJour(x, p[1], p[2])
                n(p) == Cardinality({i \in DOMAIN SeancesDuLot :
                                        SeancesDuLot[i].cle[5] = p[2]})
            IN /\ \A p \in paires :
                    /\ CompletionsRegroupement(k(p), n(p)) =
                          {<<k(p) >= 1, k(p) >= 2, k(p) = 1, ContributionAttendue(k(p))>>}
                    /\ ContributionJour(x, SeancesDuLot, p[1], p[2]) =
                          ContributionAttendue(k(p))
               /\ BonusConsecutivite(x, SeancesDuLot, Eligibles) =
                      Somme([p \in paires |-> ContributionAttendue(k(p))], paires)
               /\ BonusConsecutivite(x, SeancesDuLot, Eligibles)
                      \in DomaineScoreRegroupement(SeancesDuLot, Eligibles)

\* a run returned a schedule in which a teacher has no session on a day, a
\* teacher has one session on a day and a teacher has two or more on a day
C26_TroisCasDeRegroupement ==
    /\ SuccesGeneration
    /\ \A c \in 0..2 :
        \E t \in Eligibles : \E i \in DOMAIN SeancesDuLot :
            LET k == NbSeancesJour(reponse.valeurs, t, SeancesDuLot[i].cle[5])
            IN IF c = 2 THEN k >= 2 ELSE k = c

\* ---------------------------------------------------- objective weights
\* load of teacher t in schedule x, and the spread max - min of the loads of
\* the teachers of S
ChargeDans(x, t) == Cardinality({i \in DOMAIN x : t \in x[i]})

EcartCharges(x, S) ==
    IF S = {} THEN 0
    ELSE MaxSet({ChargeDans(x, t) : t \in S}) - MinSet({ChargeDans(x, t) : t \in S})

\* sum of the loads
SommeCharges(x) == Somme([t \in Eligibles |-> ChargeDans(x, t)], Eligibles)

\* sum over the grades with two eligible teachers or more of the spread of
\* the loads inside the grade
EcartsParGrade(x) ==
    LET de(g) == {t \in Eligibles : enseignants[t].grade_code = g}
        gs == {g \in {enseignants[t].grade_code : t \in Eligibles} :
                  Cardinality(de(g)) > 1}
    IN Somme([g \in gs |-> EcartCharges(x, de(g))], gs)

\* R: the grouping score of schedule x
ScoreRegroupement(x) ==
    LET paires == Eligibles \X {SeancesDuLot[i].cle[5] : i \in DOMAIN SeancesDuLot}
    IN Somme([p \in paires |-> ContributionAttendue(NbSeancesJour(x, p[1], p[2]))], paires)

\* the objective of the claim for a run with grouping: (w_wish, w_disp,
\* w_util, w_grp) = (50, 30, 0, 20) in normal mode, (40, 20, 20, 20) in
\* adaptive mode
ObjectifAnnonce(x) ==
    IF AdaptatifObserve
    THEN 20 * SommeCharges(x) + 20 * ScoreRegroupement(x)
            - 40 * NbVoeuxContraries(x) - 20 * EcartCharges(x, Eligibles)
    ELSE 20 * ScoreRegroupement(x)
            - 50 * NbVoeuxContraries(x) - 30 * EcartCharges(x, Eligibles)

\* C27: the objective the run maximises is -w_wish*pen_wish
\* - w_disp*(max_load - min_load) + w_util*(sum of loads) + w_grp*R with the
\* weights (50, 30, 0, 20) in normal mode and (40, 20, 20, 20) in adaptive
\* mode (grouping enabled), and no other term
C27_PoidsAnnonces ==
    SuccesGeneration =>
        ScoreConstruit(reponse.valeurs) = ObjectifAnnonce(reponse.valeurs)

\* C27 (amended): with grouping enabled the objective the run maximises is,
\* in normal and in adaptive mode alike, 35*(sum of loads)
\* - 25*(max_load - min_load) - 20*(sum over the grades of two teachers or
\* more of the spread of the loads inside the grade) + 10*R; no wish was
\* retained, so that no wish term enters
C27_PoidsConstruits ==
    SuccesGeneration =>
        \A x \in {reponse.valeurs} :
            ScoreConstruit(x) =
                35 * SommeCharges(x) - 25 * EcartCharges(x, Eligibles)
                    - 20 * EcartsParGrade(x) + 10 * ScoreRegroupement(x)

\* a run in normal mode returned a schedule with a positive sum of loads,
\* unequal loads inside a grade and a non-zero grouping score
C27_TermesNonNuls ==
    /\ SuccesGeneration
    /\ ~AdaptatifObserve
    /\ SommeCharges(reponse.valeurs) > 0
    /\ EcartsParGrade(reponse.valeurs) > 0
    /\ ScoreRegroupement(reponse.valeurs) # 0

\* ------------------------------------------------ mode of the balance
\* the sizes n for which the balance constraint of the last run was posted:
\* two sessions or more have n exams
TaillesEquilibrees ==
    {n \in {Len(SeancesDuLot[i].examens) : i \in DOMAIN SeancesDuLot} :
        Cardinality({i \in DOMAIN SeancesDuLot : Len(SeancesDuLot[i].examens) = n}) > 1}

\* C28: the balance between sessions uses the mode of the coverage
\* constraint: in a run that posts the balance constraint its
\* mode_adaptatif_global is true exactly when the coverage is in adaptive mode
\* (allow_fallback and Q < D), and the tolerance of every group of sessions of
\* n exams is tau(n) of that mode, max(2, floor(0.05 n)) in normal mode, for
\* every m >= 1
C28_ModesAccordes ==
    (SolveurAppele /\ TaillesEquilibrees # {}) =>
        /\ ModeAdaptatifGlobal(SeancesDuLot, reponse.min_surveillants_par_examen)
              <=> AdaptatifObserve
        /\ \A n \in TaillesEquilibrees :
              Tolerance(n, reponse.min_surveillants_par_examen,
                        ModeAdaptatifGlobal(SeancesDuLot,
                                            reponse.min_surveillants_par_examen))
                  = Tau(n)

\* ------------------------------------------------------ failure diagnosis
\* the diagnosis of a failed run: the lines after the diagnosis title
Diagnostic(messages) ==
    LET k == CHOOSE k \in DOMAIN messages : messages[k] = "diagnostic_des_contraintes"
    IN SubSeq(messages, k + 1, Len(messages))

\* the test a line of the diagnosis belongs to
RangTest(ligne) ==
    CASE ligne = "test_1_ok" -> 1
      [] ligne \in {"test_2_ok", "test_2_echec"} -> 2
      [] ligne \in {"test_3_ok", "test_3_echec", "capacite_limite"} -> 3
      [] ligne \in {"test_4_ok", "test_4_echec"} -> 4
      [] OTHER -> 5

\* the run ended without a schedule because the model has none
EchecInfaisable == SolveurAppele /\ reponse.status = "INFEASIBLE"

\* C29: the diagnosis of a failed run reports its tests in the order base
\* model, responsibles, coverage, quotas and ends at the first failed test;
\* when the run was in normal mode with the sum of the quotas below the
\* demand, the test of the quotas per grade is reported as failed and the
\* diagnosis does not conclude that the constraints are compatible
C29_DiagnosticFidele ==
    EchecInfaisable =>
        \A d \in {Diagnostic(reponse.messages)} :
            /\ \A i, j \in DOMAIN d : i < j => RangTest(d[i]) <= RangTest(d[j])
            /\ \A i \in DOMAIN d :
                  d[i] \in {"test_2_echec", "test_3_echec", "test_4_echec"} => i = Len(d)
            /\ (~AdaptatifObserve /\ QuotaTotal < DemandeTotale) =>
                  /\ d[Len(d)] = "test_4_echec"
                  /\ \A i \in DOMAIN d : d[i] # "conclusion_contraintes_ok"

\* ------------------------------------------------ concurrent add requests
\* worker w answered its add request with a success
AjoutReussi(w) == en_cours[w].pc = "fini" /\ en_cours[w].etat = "retour"

\* C30: whatever the interleaving of the checks and the inserts of two add
\* requests for the same teacher on overlapping sets of exams, at most one of
\* them succeeds and the store never holds two rows for an (exam, teacher)
C30_AjoutsConcurrents ==
    /\ SansDoublon(affectations)
    /\ \A w1, w2 \in Workers :
          (/\ w1 # w2
           /\ AjoutReussi(w1) /\ AjoutReussi(w2)
           /\ en_cours[w1].corps.enseignant_id = en_cours[w2].corps.enseignant_id)
            => ExamensVises(en_cours[w1]) \cap ExamensVises(en_cours[w2]) = {}
====
